---- MODULE Spec2Model ----
(***************************************************************************)
(* State-machine model of the Wasabi upload bot (src/bot.py).              *)
(*                                                                         *)
(* A session is one incoming message handled by instant_upload_handler     *)
(* (a document/video/audio message) or by true_instant_upload_handler      *)
(* (the /fast command).  The remote store (boto3 S3 client), the inbound   *)
(* download (pyrogram) and the status message are collaborators: each of   *)
(* their calls either returns or raises, chosen by the environment.        *)
(*                                                                         *)
(* Sizes are scaled: one model byte stands for a block of bytes, and time  *)
(* is counted in ticks of 1/TicksPerSec second.                            *)
(*                                                                         *)
(* The repository also holds a group-moderation bot                        *)
(* (src/deepseek_python_20251125_5fef99.py); its warning counter and its   *)
(* anti-flood window are modelled in the specifications SpecWarn and       *)
(* SpecFlood, its admin-only commands in SpecAdmin, /toggle in SpecToggle, *)
(* the link and media blocks in SpecFilter and the captcha in SpecCaptcha. *)
(***************************************************************************)
EXTENDS Integers, Sequences, FiniteSets, TLC

\* ---------------------------------------------------------------- bounds
NSessions == 2          \* concurrent handler invocations
MaxTime == 3            \* the clock stops advancing after MaxTime ticks
TicksPerSec == 4        \* clock resolution: ticks per second
MaxWarnCount == 5       \* /warn is explored until a stored count reaches MaxWarnCount
MaxWall == 3            \* the moderation bot's clock stops after MaxWall ticks
MaxMsgs == 4            \* messages handled by message_filter in one behaviour
MaxJoins == 2           \* captcha messages in place for one user

\* ------------------------------------------------------ program constants
MAX_FILE_SIZE == 5      \* config.MAX_FILE_SIZE (2 GB), scaled
CHUNK_SIZE == 2         \* config.CHUNK_SIZE (50 MB), scaled
FAST_LIMIT == 3         \* 500 * 1024 * 1024 in true_instant_upload_handler, scaled
BOTO_MAX_ATTEMPTS == 2  \* retries={'max_attempts': 2, 'mode': 'standard'}, line 33
MAX_WORKERS == 2        \* config.MAX_WORKERS (20), scaled

Sessions == 1..NSessions
None == 0               \* Python None (upload_id, a failed call's result)

\* The file_name of the inbound media: a string, or Python's None (pyrogram
\* sets the attribute to None for a media sent without a name).
FileNames == {"None", "file.bin"}

\* Declared sizes an inbound object can have: up to one over the limit.
Sizes == 0..(MAX_FILE_SIZE + 1)

\* The inbound object of a given size: byte i has value i, so that a lost,
\* duplicated or reordered byte is visible in any reassembly.
ObjectBytes(size) == [i \in 1..size |-> i]

VARIABLES
    pc,             \* position of each handler invocation
    file_size,      \* media.file_size
    dl,             \* bytes downloaded into the temporary file so far
    pos,            \* read position of file_obj in the temporary file
    upload_id,      \* SimpleInstantUploader.upload_id
    parts,          \* SimpleInstantUploader.parts
    part_number,    \* SimpleInstantUploader.part_number
    uploaded_size,  \* SimpleInstantUploader.uploaded_size
    inflight,       \* chunk_data of the upload_part call running in the executor
    result,         \* part returned by upload_part to the awaiting upload_chunk
    success,        \* value returned by complete_upload
    events,         \* progress_hook coroutines posted by run_coroutine_threadsafe
    start_time,     \* start_time of line 306 (line 404 in /fast)
    uploader_start_time, \* SimpleInstantUploader.start_time, line 196
    now,            \* time.time(), in ticks
    renders,        \* edit_text attempts by non-final progress events, this second
    calls,          \* log of calls made to the remote store, per session
    storeParts,     \* remote store: bytes held per part number of the upload
    storeObject,    \* remote store: bytes of the assembled object, per key
    web_link,       \* TRUE once the presigned URL was sent to the user
    handler,        \* which handler took the message: "instant" or "fast"
    fault,          \* the call whose exception reached the handler's except clause
    last_hook,      \* the last run of progress_hook: its arguments and whether it rendered
    returned,       \* the last gateway call: the exception the store raised, the value returned
    cancelled,      \* TRUE once an external cancel signal was raised for the transfer
    total_time,     \* total_time of line 360, in ticks
    attempt,        \* sends botocore has made of the upload_part request in progress
    original_filename, \* original_filename of lines 284 / 396: the media's file_name
    warns,          \* moderation bot: table warns, count per user of the chat (0: no row)
    banned,         \* moderation bot: users banned from the chat
    warn_out,       \* moderation bot: what the last /warn on each user did
    settings,       \* moderation bot: table chat_settings, the row of each chat
    flood_cache,    \* moderation bot: flood_cache[chat_id][user_id]
    wall,           \* moderation bot: time.time(), in ticks
    msgs,           \* moderation bot: every message message_filter handled, per user
    flood_out,      \* moderation bot: what the last message_filter run on each user did
    muted,          \* moderation bot: users restricted to can_send_messages=False
    kicked,         \* moderation bot: users removed from the chat by /kick
    captcha_msgs,   \* moderation bot: captcha messages in place, per target user
    cmd_out,        \* moderation bot: what the last command handler did
    captcha_out,    \* moderation bot: the last join or captcha button press
    rows            \* moderation bot: the chats that have a row in chat_settings

\* The variables of the upload bot (bot.py) and of the moderation bot.
botVars == <<pc, file_size, dl, pos, upload_id, parts, part_number, uploaded_size,
             inflight, result, success, events, start_time, uploader_start_time, now, renders, calls,
             storeParts, storeObject, web_link, handler, fault, last_hook,
             returned, cancelled, total_time, attempt, original_filename>>
modVars == <<warns, banned, warn_out, settings, flood_cache, wall,
             msgs, flood_out, muted, kicked, captcha_msgs, cmd_out, captcha_out,
             rows>>

vars == <<pc, file_size, dl, pos, upload_id, parts, part_number, uploaded_size,
          inflight, result, success, events, start_time, uploader_start_time, now, renders, calls,
          storeParts, storeObject, web_link, handler, fault, last_hook,
          returned, cancelled, total_time, attempt, original_filename,
          warns, banned, warn_out, settings,
          flood_cache, wall, msgs, flood_out, muted, kicked, captcha_msgs,
          cmd_out, captcha_out, rows>>

\* ------------------------------------------------------------- helpers
Min(a, b) == IF a < b THEN a ELSE b

RECURSIVE Concat(_)
Concat(ss) == IF ss = <<>> THEN <<>> ELSE Head(ss) \o Concat(Tail(ss))

\* round(x) == 0 for x = r / TicksPerSec in [0, 1): Python rounds half to even.
RoundFrac(r) == IF 2 * r <= TicksPerSec THEN 0 ELSE 1

\* Variant: the final event is throttled like any other.
HookRendersThrottled(current, total, diff) ==
    RoundFrac(diff % TicksPerSec) = 0

\* progress_hook's condition for attempting message.edit_text.
HookRenders(current, total, diff) ==
    RoundFrac(diff % TicksPerSec) = 0 \/ current = total

\* The parts list after self.parts.sort(key=PartNumber): insertion sort.
RECURSIVE InsertPart(_, _)
InsertPart(p, sorted) ==
    IF sorted = <<>> THEN <<p>>
    ELSE IF p.PartNumber < Head(sorted).PartNumber THEN <<p>> \o sorted
    ELSE <<Head(sorted)>> \o InsertPart(p, Tail(sorted))

RECURSIVE SortParts(_)
SortParts(ps) ==
    IF ps = <<>> THEN <<>>
    ELSE InsertPart(ps[Len(ps)], SortParts(SubSeq(ps, 1, Len(ps) - 1)))

\* Variant: every read returns a single byte.
ReadChunkAtShort(size, p) == SubSeq(ObjectBytes(size), p + 1, Min(p + 1, size))

\* file_obj.read(chunk_size) at read position p of an object of the given size.
ReadChunkAt(size, p) == SubSeq(ObjectBytes(size), p + 1, Min(p + CHUNK_SIZE, size))

\* upload_part's return value: the part record, or None (NoPart) on any exception.
NoPart == [PartNumber |-> 0, ETag |-> <<>>]
PartRecord(pn, data) == [PartNumber |-> pn, ETag |-> data]

\* One entry of the log of remote-store calls: the operation, the part number
\* and body it was given (upload_part only) and whether it returned a response.
Call(op, pn, data, ok) == [op |-> op, pn |-> pn, data |-> data, ok |-> ok]

\* Python's round(num / den) for num >= 0, den > 0: half rounds to even.
RoundHalfEven(num, den) ==
    LET q == num \div den
        r == num % den
    IN  IF 2 * r < den THEN q
        ELSE IF 2 * r > den THEN q + 1
        ELSE IF q % 2 = 0 THEN q ELSE q + 1

\* Line 152: speed = current / diff if diff > 0 else 0; is it positive.
SpeedPositive(current, diff) == diff > 0 /\ current > 0

\* Line 154, in seconds: round((total - current) / speed) if speed > 0 else 0,
\* with speed = current / (diff / TicksPerSec).
TimeToCompletion(current, total, diff) ==
    IF SpeedPositive(current, diff)
    THEN RoundHalfEven((total - current) * diff, current * TicksPerSec)
    ELSE 0

\* What is recorded of one run of progress_hook: current, the fraction of a
\* second of diff (in ticks) and whether message.edit_text was attempted.
NoHook ==
    [ran |-> FALSE, current |-> 0, total |-> 0, diff |-> 0, frac |-> 0,
     rendered |-> FALSE, eta |-> <<>>]
HookRun(current, total, diff) ==
    [ran |-> TRUE, current |-> current, total |-> total, diff |-> diff,
     frac |-> diff % TicksPerSec,
     rendered |-> HookRenders(current, total, diff),
     eta |-> IF HookRenders(current, total, diff)
             THEN <<TimeToCompletion(current, total, diff)>> ELSE <<>>]

\* The kinds of failure a store call can raise.
ErrorKinds == {"transient", "fatal"}

\* What a gateway method hands back to its caller: the store's value, or on
\* any exception None (False for complete_multipart_upload); the kind of the
\* exception is logged and dropped.
GatewayReturn(op, ok, kind) ==
    IF ok THEN "value" ELSE IF op = "complete" THEN "False" ELSE "None"

NoReturn == [op |-> "none", raised |-> "none", value |-> "none"]
Returned(op, ok, kind) ==
    [op |-> op, raised |-> IF ok THEN "none" ELSE kind,
     value |-> GatewayReturn(op, ok, kind)]

\* ------------------------------------------------------- moderation bot
\* The users of one chat.
Users == 1..2

\* The chats the bot is in: the rows of table chat_settings.  The per-user
\* state (warns, bans, permissions, flood_cache) is that of HomeChat.
Chats == 1..2
HomeChat == 1

\* chat_settings.max_warns: the column's default; no command changes it.
DEFAULT_MAX_WARNS == 3
FLOOD_LIMIT == 2
FLOOD_WINDOW == 2

\* member.status of the user who sends a command or a message.
Statuses == {"member", "administrator", "creator"}
AdminStatuses == {"administrator", "creator"}

\* STRINGS: the languages /lang accepts.
Langs == {"en", "es"}

\* A row of chat_settings as init_db's column defaults make it (lines 97-110).
DefaultSettings ==
    [captcha_enabled |-> 0, anti_flood_enabled |-> 0, block_links |-> 0,
     block_media |-> 0, lang |-> "en", rules |-> "", welcome_image |-> "default"]

NoWarnOut == [kind |-> "none", cur |-> 0]
NoFloodOut ==
    [ran |-> FALSE, at |-> 0, checked |-> FALSE, warned |-> FALSE,
     kind |-> "none", admin |-> FALSE, links_on |-> FALSE, media_on |-> FALSE,
     deleted |-> FALSE, raised |-> "none"]
NoCmdOut ==
    [cmd |-> "none", chat |-> 0, private |-> FALSE, status |-> "none",
     arg |-> "none", reply |-> "none", turn |-> 0]
NoCaptchaOut ==
    [kind |-> "none", presser |-> 0, target |-> 0, bot |-> FALSE, enabled |-> FALSE]

\* Database.__init__ creates empty tables; flood_cache starts empty.  A chat
\* that has no row yet has the column defaults as its settings.
InitMod ==
    /\ warns = [u \in Users |-> 0]
    /\ banned = {}
    /\ warn_out = [u \in Users |-> NoWarnOut]
    /\ settings = [c \in Chats |-> DefaultSettings]
    /\ flood_cache = [u \in Users |-> <<>>]
    /\ wall = 0
    /\ msgs = [u \in Users |-> <<>>]
    /\ flood_out = [u \in Users |-> NoFloodOut]
    /\ muted = {}
    /\ kicked = {}
    /\ captcha_msgs = [u \in Users |-> 0]
    /\ cmd_out = NoCmdOut
    /\ captcha_out = NoCaptchaOut
    /\ rows = {}

\* ---------------------------------------------------------------- Init
\* The store is empty and one message is about to arrive, for session 1; the
\* other sessions stay "off" (no message ever arrives for them).
Init ==
    /\ pc = [s \in Sessions |-> IF s = 1 THEN "init" ELSE "off"]
    /\ file_size = [s \in Sessions |-> 0]
    /\ dl = [s \in Sessions |-> 0]
    /\ pos = [s \in Sessions |-> 0]
    /\ upload_id = [s \in Sessions |-> None]
    /\ parts = [s \in Sessions |-> <<>>]
    /\ part_number = [s \in Sessions |-> 1]
    /\ uploaded_size = [s \in Sessions |-> 0]
    /\ inflight = [s \in Sessions |-> <<>>]
    /\ result = [s \in Sessions |-> NoPart]
    /\ success = [s \in Sessions |-> FALSE]
    /\ events = [s \in Sessions |-> <<>>]
    /\ start_time = [s \in Sessions |-> 0]
    /\ uploader_start_time = [s \in Sessions |-> 0]
    /\ now = 0
    /\ renders = [s \in Sessions |-> 0]
    /\ calls = [s \in Sessions |-> <<>>]
    /\ storeParts = [s \in Sessions |-> <<>>]
    /\ storeObject = [s \in Sessions |-> <<>>]
    /\ web_link = [s \in Sessions |-> FALSE]
    /\ handler = [s \in Sessions |-> "none"]
    /\ fault = [s \in Sessions |-> "none"]
    /\ last_hook = [s \in Sessions |-> NoHook]
    /\ returned = [s \in Sessions |-> NoReturn]
    /\ cancelled = [s \in Sessions |-> FALSE]
    /\ total_time = [s \in Sessions |-> 0]
    /\ attempt = [s \in Sessions |-> 0]
    /\ original_filename = [s \in Sessions |-> "none"]
    /\ InitMod

\* -------------------------------------------------------- progress_hook
\* One run of progress_hook(current, total, message, start_time): the number
\* of edit_text attempts by non-final events in the current second.
RendersAfter(n, current, total, diff) ==
    IF HookRenders(current, total, diff) /\ current # total THEN n + 1 ELSE n

ProgressHook(s, current, start) ==
    /\ renders' = [renders EXCEPT ![s] =
                      RendersAfter(@, current, file_size[s], now - start)]
    /\ last_hook' = [last_hook EXCEPT ![s] =
                        HookRun(current, file_size[s], now - start)]

\* The start time of the progress hooks s is running: the download's hooks
\* get start_time (line 328), the uploader's get self.start_time (line 218).
HookStart(s) ==
    IF handler[s] = "instant" /\ pc[s] # "downloading"
    THEN uploader_start_time[s] ELSE start_time[s]

\* The count of renders in the current second of every session once the
\* clock reads t: it restarts when the elapsed time enters a new second.
RendersAt(t) ==
    [s \in Sessions |->
        IF pc[s] \notin {"off", "init"} /\ (t - HookStart(s)) % TicksPerSec = 0
        THEN 0 ELSE renders[s]]

\* time.time() advances by one tick; a session's count of renders in the
\* current second restarts when its elapsed time enters a new second.
Tick ==
    /\ UNCHANGED modVars
    /\ UNCHANGED <<returned, cancelled, total_time, attempt, original_filename>>
    /\ UNCHANGED <<handler, fault, last_hook>>
    /\ now < MaxTime
    /\ now' = now + 1
    /\ renders' = RendersAt(now + 1)
    /\ UNCHANGED <<pc, file_size, dl, pos, upload_id, parts, part_number,
                   uploaded_size, inflight, result, success, events, start_time, uploader_start_time,
                   calls, storeParts, storeObject, web_link>>

\* The event loop runs a progress_hook coroutine a worker thread posted.
RunProgressHook(s) ==
    /\ UNCHANGED modVars
    /\ UNCHANGED <<returned, cancelled, total_time, attempt, original_filename>>
    /\ UNCHANGED <<handler, fault>>
    /\ events[s] # <<>>
    /\ ProgressHook(s, Head(events[s]), uploader_start_time[s])
    /\ events' = [events EXCEPT ![s] = Tail(@)]
    /\ UNCHANGED <<pc, file_size, dl, pos, upload_id, parts, part_number,
                   uploaded_size, inflight, result, success, start_time, uploader_start_time, now,
                   calls, storeParts, storeObject, web_link>>

\* ------------------------------------------------ instant_upload_handler
\* Variant: a finished invocation and its uploader take a second message.
CanReceiveAgain(s) ==
    pc[s] \in {"init", "done", "rejected", "raised", "failed_start",
               "failed_complete", "failed_url", "error"}

\* A handler invocation, with its own uploader, is created for a message that
\* arrives, once.
CanReceive(s) == pc[s] = "init"

\* Variant: the size check is off by one.
TooLargeOffByOne(size) == size > MAX_FILE_SIZE + 1

\* Line 288: the size check of instant_upload_handler.
TooLarge(size) == size > MAX_FILE_SIZE

\* generate_s3_key, line 179: os.path.splitext(filename) raises TypeError for
\* a filename of None.
S3KeyRaises(name) == name = "None"

\* Lines 281-299, up to the first await: the size is read and checked; the
\* handler is then suspended in message.reply_text, of the rejection text
\* (line 289) or of the status message (line 299).  For an accepted media
\* without a file name generate_s3_key (line 296, outside the try) raises and
\* the handler ends with no reply attempted.
Receive(s, size, name) ==
    /\ UNCHANGED modVars
    /\ UNCHANGED <<returned, cancelled, total_time, attempt>>
    /\ UNCHANGED <<fault, last_hook>>
    /\ CanReceive(s)
    /\ handler' = [handler EXCEPT ![s] = "instant"]
    /\ file_size' = [file_size EXCEPT ![s] = size]
    /\ original_filename' = [original_filename EXCEPT ![s] = name]
    /\ pc' = [pc EXCEPT ![s] = IF TooLarge(size) THEN "rejecting"
                               ELSE IF S3KeyRaises(name) THEN "raised"
                               ELSE "accepting"]
    /\ UNCHANGED <<dl, pos, upload_id, parts, part_number, uploaded_size, inflight,
                   result, success, events, start_time, uploader_start_time, now, renders,
                   calls, storeParts, storeObject, web_link>>

\* message.reply_text of line 289 or 299 returns or raises.  Both awaits are
\* outside the try of line 309: an exception leaves the handler, which ends
\* with nothing dispatched.  After line 289 the handler returns; after line
\* 299 it reads start_time (line 306), builds its uploader, whose __init__
\* reads the clock again (line 196), late ticks after the first read, and
\* dispatches start_multipart_upload to the executor (line 312).
ReceiveReplied(s, ok, late) ==
    /\ UNCHANGED modVars
    /\ UNCHANGED <<returned, cancelled, total_time, attempt, original_filename>>
    /\ UNCHANGED <<handler, fault, last_hook>>
    /\ handler[s] = "instant"
    /\ pc[s] \in {"rejecting", "accepting"}
    /\ IF ok /\ pc[s] = "accepting"
       THEN /\ now + late <= MaxTime
            /\ pc' = [pc EXCEPT ![s] = "starting"]
            /\ start_time' = [start_time EXCEPT ![s] = now]
            /\ uploader_start_time' = [uploader_start_time EXCEPT ![s] = now + late]
            /\ now' = now + late
            /\ renders' = IF late = 0 THEN renders ELSE RendersAt(now + late)
            /\ uploaded_size' = [uploaded_size EXCEPT ![s] = 0]
            /\ upload_id' = [upload_id EXCEPT ![s] = None]
            /\ parts' = [parts EXCEPT ![s] = <<>>]
            /\ part_number' = [part_number EXCEPT ![s] = 1]
       ELSE /\ late = 0
            /\ pc' = [pc EXCEPT ![s] = IF ok THEN "rejected" ELSE "raised"]
            /\ UNCHANGED <<start_time, uploader_start_time, uploaded_size, upload_id,
                           parts, part_number, now, renders>>
    /\ UNCHANGED <<file_size, dl, pos, inflight, result, success, events,
                   calls, storeParts, storeObject, web_link>>

\* Variant: the returned UploadId is not kept.
UploadIdAfterUnset(ok, id) == None

\* Lines 204-208: self.upload_id is the UploadId the store returned, or None.
UploadIdAfter(ok, id) == IF ok THEN id ELSE None

\* Variant: the result of start_upload is not checked.
AfterStartUnchecked(ok, editOk) ==
    IF ~editOk THEN "error" ELSE "downloading"

\* Lines 314-318: where the handler goes once the status edit it awaits after
\* start_upload (line 315 on a failed start, line 318 otherwise) returned or
\* raised; a raised edit reaches the except clause of line 382.
AfterStart(ok, editOk) ==
    IF ~editOk THEN "error"
    ELSE IF ~ok THEN "failed_start" ELSE "downloading"

\* The worker thread runs s3_client.start_multipart_upload (lines 55-65): the
\* store returns an UploadId, or raises and the gateway returns None.  The
\* coroutine that awaits the call is not resumed yet.
StartUpload(s, ok, kind) ==
    /\ UNCHANGED modVars
    /\ UNCHANGED <<cancelled, total_time, attempt, original_filename>>
    /\ UNCHANGED <<handler, fault, last_hook>>
    /\ pc[s] = "starting"
    /\ calls' = [calls EXCEPT ![s] = Append(@, Call("start", 0, <<>>, ok))]
    /\ returned' = [returned EXCEPT ![s] = Returned("start", ok, kind)]
    /\ pc' = [pc EXCEPT ![s] = "start_returned"]
    /\ UNCHANGED <<file_size, dl, pos, upload_id, parts, part_number, uploaded_size,
                   inflight, result, success, events, start_time, uploader_start_time, now, renders,
                   storeParts, storeObject, web_link>>

\* The event loop resumes start_upload (line 204): self.upload_id becomes what
\* the worker returned; the handler goes on to line 315 or line 318 and is
\* suspended in status_msg.edit_text.
StartResume(s) ==
    /\ UNCHANGED modVars
    /\ UNCHANGED <<returned, cancelled, total_time, attempt, original_filename>>
    /\ UNCHANGED <<handler, fault, last_hook>>
    /\ pc[s] = "start_returned"
    /\ upload_id' = [upload_id EXCEPT ![s] =
                        UploadIdAfter(returned[s].value = "value", s)]
    /\ pc' = [pc EXCEPT ![s] = "start_edit"]
    /\ UNCHANGED <<file_size, dl, pos, parts, part_number, uploaded_size, inflight,
                   result, success, events, start_time, uploader_start_time, now, renders, calls,
                   storeParts, storeObject, web_link>>

\* status_msg.edit_text of line 315 or 318 returns or raises: the handler
\* returns after a failed start, starts the download after a successful one,
\* and ends in its except clause when the edit raised.
StartEdited(s, editOk) ==
    /\ UNCHANGED modVars
    /\ UNCHANGED <<returned, cancelled, total_time, attempt, original_filename>>
    /\ UNCHANGED <<handler, last_hook>>
    /\ pc[s] = "start_edit"
    /\ pc' = [pc EXCEPT ![s] = AfterStart(upload_id[s] # None, editOk)]
    /\ fault' = [fault EXCEPT ![s] = IF ~editOk THEN "edit" ELSE @]
    /\ UNCHANGED <<file_size, dl, pos, upload_id, parts, part_number, uploaded_size,
                   inflight, result, success, events, start_time, uploader_start_time, now, renders,
                   calls, storeParts, storeObject, web_link>>

\* message.download writes n more bytes to the temporary file and calls
\* progress_hook(current, total, status_msg, start_time, ...).
DownloadStep(s, n) ==
    /\ UNCHANGED modVars
    /\ UNCHANGED <<returned, cancelled, total_time, attempt, original_filename>>
    /\ UNCHANGED <<handler, fault>>
    /\ pc[s] = "downloading"
    /\ dl[s] + n <= file_size[s]
    /\ dl' = [dl EXCEPT ![s] = @ + n]
    /\ ProgressHook(s, dl[s] + n, start_time[s])
    /\ UNCHANGED <<pc, file_size, pos, upload_id, parts, part_number, uploaded_size,
                   inflight, result, success, events, start_time, uploader_start_time, now,
                   calls, storeParts, storeObject, web_link>>

\* await download_task returns (line 332), with the whole file written or
\* fewer bytes: the handler looks neither at the value returned nor at the
\* size of the temporary file, which it opens for reading (line 336).
DownloadDone(s) ==
    /\ UNCHANGED modVars
    /\ UNCHANGED <<returned, cancelled, total_time, attempt, original_filename>>
    /\ UNCHANGED <<handler, fault, last_hook>>
    /\ pc[s] = "downloading"
    /\ pc' = [pc EXCEPT ![s] = "reading"]
    /\ pos' = [pos EXCEPT ![s] = 0]
    /\ UNCHANGED <<file_size, dl, upload_id, parts, part_number, uploaded_size,
                   inflight, result, success, events, start_time, uploader_start_time, now, renders,
                   calls, storeParts, storeObject, web_link>>

\* await download_task raises: the handler's except clause reports the error.
DownloadFail(s) ==
    /\ UNCHANGED modVars
    /\ UNCHANGED <<returned, cancelled, total_time, attempt, original_filename>>
    /\ UNCHANGED <<handler, last_hook>>
    /\ pc[s] = "downloading"
    /\ pc' = [pc EXCEPT ![s] = "error"]
    /\ fault' = [fault EXCEPT ![s] = "download"]
    /\ UNCHANGED <<file_size, dl, pos, upload_id, parts, part_number, uploaded_size,
                   inflight, result, success, events, start_time, uploader_start_time, now, renders,
                   calls, storeParts, storeObject, web_link>>

\* Variant: upload_chunk is started without being awaited.
CanReadEager(s) == pc[s] \in {"reading", "uploading"}

\* Line 343: the loop awaits upload_chunk, so it reads the next chunk only
\* after the previous upload_part call returned.
CanRead(s) == pc[s] = "reading"

\* One turn of the while loop, lines 337-343: read a chunk of the temporary
\* file, which holds the dl bytes the download wrote; on an empty read
\* leave the loop and enter complete_upload (which sorts the parts and
\* dispatches the completion call); otherwise enter upload_chunk, which
\* dispatches upload_part unless upload_id is unset.
ReadChunk(s) ==
    /\ UNCHANGED modVars
    /\ UNCHANGED <<returned, cancelled, total_time, attempt, original_filename>>
    /\ UNCHANGED <<handler, fault, last_hook>>
    /\ CanRead(s)
    /\ LET chunk == ReadChunkAt(dl[s], pos[s]) IN
       IF chunk = <<>>
       THEN /\ IF upload_id[s] = None
               THEN /\ pc' = [pc EXCEPT ![s] = "finalized"]
                    /\ success' = [success EXCEPT ![s] = FALSE]
                    /\ UNCHANGED parts
               ELSE /\ pc' = [pc EXCEPT ![s] = "completing"]
                    /\ parts' = [parts EXCEPT ![s] = SortParts(@)]
                    /\ UNCHANGED success
            /\ UNCHANGED <<pos, inflight>>
       ELSE /\ pos' = [pos EXCEPT ![s] = @ + Len(chunk)]
            /\ IF upload_id[s] = None
               THEN UNCHANGED <<pc, inflight>>
               ELSE /\ pc' = [pc EXCEPT ![s] = "uploading"]
                    /\ inflight' = [inflight EXCEPT ![s] = chunk]
            /\ UNCHANGED <<parts, success>>
    /\ UNCHANGED <<file_size, dl, upload_id, part_number, uploaded_size, result,
                   events, start_time, uploader_start_time, now, renders, calls, storeParts,
                   storeObject, web_link>>

\* Variant: the bytes are added whether or not the store accepted the part.
UploadedAfterAlways(size, ok, data) ==
    IF Len(data) > 0 THEN size + Len(data) ELSE size

\* progress_callback's update of uploaded_size, reached only after the store
\* returned a response for the part and only for a non-empty body.
UploadedAfter(size, ok, data) ==
    IF ok /\ Len(data) > 0 THEN size + Len(data) ELSE size

\* Variant: one uploader object shared by every invocation of the handler.
UploaderShared(s) == 1

\* The uploader whose fields an invocation of the handler updates: the
\* SimpleInstantUploader it constructed itself (line 311), held in a local.
UploaderOf(s) == s

\* Variant: a request is sent once.
ResendNever(kind, sent) == FALSE

\* The client's retry configuration (line 33, standard mode): a request whose
\* send failed transiently is sent again, same part number and body, at most
\* BOTO_MAX_ATTEMPTS times after the first send; sent counts the sends made.
Resend(kind, sent) == kind = "transient" /\ sent <= BOTO_MAX_ATTEMPTS

\* The worker thread runs s3_client.upload_part (lines 67-82); one step is one
\* send of the request by the client.  A send that fails and is to be sent
\* again leaves everything else as it is.  On a response the store holds the
\* part and progress_callback adds the bytes (line 212) and posts a
\* progress_hook coroutine to the loop (lines 213-222), the worker not having
\* returned yet; on an exception that is not retried the method returns None.
UploadPart(s, ok, kind) ==
    /\ UNCHANGED modVars
    /\ UNCHANGED <<cancelled, total_time, original_filename>>
    /\ UNCHANGED <<handler, fault, last_hook>>
    /\ pc[s] = "uploading"
    /\ attempt' = [attempt EXCEPT ![s] = @ + 1]
    /\ IF ~ok /\ Resend(kind, attempt[s] + 1)
       THEN UNCHANGED <<pc, calls, storeParts, uploaded_size, events, returned, result>>
       ELSE /\ LET pn == part_number[UploaderOf(s)]
                   data == inflight[s]
                   done == UploadedAfter(uploaded_size[UploaderOf(s)], ok, data)
               IN
               /\ calls' = [calls EXCEPT ![s] = Append(@, Call("part", pn, data, ok))]
               /\ storeParts' = [storeParts EXCEPT ![s] =
                                    IF ok THEN (pn :> data) @@ @ ELSE @]
               /\ uploaded_size' = [uploaded_size EXCEPT ![UploaderOf(s)] = done]
               /\ events' = [events EXCEPT ![s] =
                                IF done # uploaded_size[UploaderOf(s)]
                                THEN Append(@, done) ELSE @]
            /\ IF ok
               THEN /\ pc' = [pc EXCEPT ![s] = "part_acked"]
                    /\ UNCHANGED <<returned, result>>
               ELSE /\ pc' = [pc EXCEPT ![s] = "returned"]
                    /\ returned' = [returned EXCEPT ![s] = Returned("part", FALSE, kind)]
                    /\ result' = [result EXCEPT ![s] = NoPart]
    /\ UNCHANGED <<file_size, dl, pos, upload_id, parts, part_number, inflight,
                   success, start_time, uploader_start_time, now, renders, storeObject, web_link>>

\* The worker thread returns the part record (line 79); the coroutine that
\* awaits it is not resumed yet.
UploadPartReturn(s) ==
    /\ UNCHANGED modVars
    /\ UNCHANGED <<cancelled, total_time, attempt, original_filename>>
    /\ UNCHANGED <<handler, fault, last_hook>>
    /\ pc[s] = "part_acked"
    /\ returned' = [returned EXCEPT ![s] = Returned("part", TRUE, "transient")]
    /\ result' = [result EXCEPT ![s] =
                     PartRecord(part_number[UploaderOf(s)], inflight[s])]
    /\ pc' = [pc EXCEPT ![s] = "returned"]
    /\ UNCHANGED <<file_size, dl, pos, upload_id, parts, part_number, uploaded_size,
                   inflight, success, events, start_time, uploader_start_time, now, renders, calls,
                   storeParts, storeObject, web_link>>

\* Variant: the returned value is appended without the 'if part' test.
PartsAfterAlways(ps, part) == Append(ps, part)

\* upload_chunk after the await, lines 240-244.
PartsAfter(ps, part) == IF part # NoPart THEN Append(ps, part) ELSE ps
\* Variant: the part number advances on every chunk, acknowledged or not.
PartNumberAfterAlways(pn, part) == pn + 1
PartNumberAfter(pn, part) == IF part # NoPart THEN pn + 1 ELSE pn

\* The coroutine resumes in upload_chunk and returns to the while loop, which
\* ignores the returned part.
UploadChunkResume(s) ==
    /\ UNCHANGED modVars
    /\ UNCHANGED <<returned, cancelled, total_time, original_filename>>
    /\ UNCHANGED <<handler, fault, last_hook>>
    /\ pc[s] = "returned"
    /\ parts' = [parts EXCEPT ![UploaderOf(s)] = PartsAfter(@, result[s])]
    /\ part_number' = [part_number EXCEPT ![UploaderOf(s)] = PartNumberAfter(@, result[s])]
    /\ inflight' = [inflight EXCEPT ![s] = <<>>]
    /\ attempt' = [attempt EXCEPT ![s] = 0]
    /\ pc' = [pc EXCEPT ![s] = "reading"]
    /\ UNCHANGED <<file_size, dl, pos, upload_id, uploaded_size, result, success,
                   events, start_time, uploader_start_time, now, renders, calls, storeParts,
                   storeObject, web_link>>

\* The object the store assembles from the listed parts: the bytes it holds
\* under each listed part number, in list order.
Assemble(held, ps) ==
    Concat([i \in 1..Len(ps) |->
               IF ps[i].PartNumber \in DOMAIN held THEN held[ps[i].PartNumber] ELSE <<>>])

\* The worker thread runs s3_client.complete_multipart_upload (lines 84-96).
CompleteUpload(s, ok, kind) ==
    /\ UNCHANGED modVars
    /\ UNCHANGED <<cancelled, total_time, attempt, original_filename>>
    /\ UNCHANGED <<handler, fault, last_hook>>
    /\ pc[s] = "completing"
    /\ calls' = [calls EXCEPT ![s] = Append(@, Call("complete", 0, <<>>, ok))]
    /\ returned' = [returned EXCEPT ![s] = Returned("complete", ok, kind)]
    /\ storeObject' = [storeObject EXCEPT ![s] =
                          IF ok THEN Assemble(storeParts[s], parts[s]) ELSE @]
    /\ success' = [success EXCEPT ![s] = ok]
    /\ pc' = [pc EXCEPT ![s] = "finalized"]
    /\ UNCHANGED <<file_size, dl, pos, upload_id, parts, part_number, uploaded_size,
                   inflight, result, events, start_time, uploader_start_time, now, renders,
                   storeParts, web_link>>

\* Variant: the result of complete_upload is not checked.
LinkRequestedAlways(ok) == TRUE

\* Line 348: the handler goes on to the presigned URL only on success.
LinkRequested(ok) == ok

\* Lines 346-361, from the resumption of the handler after complete_upload to
\* its next await: on a failed completion the handler awaits the status edit
\* of line 349; otherwise it calls generate_presigned_url (in the event loop,
\* not in the executor), awaits the status edit of line 356 when there is no
\* URL, else takes total_time (line 360) and awaits status_msg.delete().
FinishHandler(s, urlOk, kind) ==
    /\ UNCHANGED modVars
    /\ UNCHANGED <<cancelled, attempt, original_filename>>
    /\ UNCHANGED <<handler, fault, last_hook>>
    /\ pc[s] = "finalized"
    /\ IF ~LinkRequested(success[s])
       THEN /\ pc' = [pc EXCEPT ![s] = "complete_edit"]
            /\ UNCHANGED <<calls, returned, total_time>>
       ELSE /\ calls' = [calls EXCEPT ![s] =
                            Append(@, Call("url", 0, <<>>, urlOk))]
            /\ returned' = [returned EXCEPT ![s] = Returned("url", urlOk, kind)]
            /\ IF urlOk
               THEN /\ pc' = [pc EXCEPT ![s] = "deleting"]
                    /\ total_time' = [total_time EXCEPT ![s] = now - start_time[s]]
               ELSE /\ pc' = [pc EXCEPT ![s] = "url_edit"]
                    /\ UNCHANGED total_time
    /\ UNCHANGED <<file_size, dl, pos, upload_id, parts, part_number, uploaded_size,
                   inflight, result, success, events, start_time, uploader_start_time, now, renders,
                   storeParts, storeObject, web_link>>

\* status_msg.edit_text of line 349 or 356 returns, and the handler returns,
\* or raises, and the handler ends in its except clause.
FailureEdited(s, editOk) ==
    /\ UNCHANGED modVars
    /\ UNCHANGED <<returned, cancelled, total_time, attempt, original_filename>>
    /\ UNCHANGED <<handler, last_hook>>
    /\ pc[s] \in {"complete_edit", "url_edit"}
    /\ pc' = [pc EXCEPT ![s] =
                 IF ~editOk THEN "error"
                 ELSE IF pc[s] = "complete_edit" THEN "failed_complete"
                 ELSE "failed_url"]
    /\ fault' = [fault EXCEPT ![s] = IF ~editOk THEN "edit" ELSE @]
    /\ UNCHANGED <<file_size, dl, pos, upload_id, parts, part_number, uploaded_size,
                   inflight, result, success, events, start_time, uploader_start_time, now, renders,
                   calls, storeParts, storeObject, web_link>>

\* status_msg.delete() of line 361 returns or raises; then the reply text is
\* built, where file_size/total_time (line 368) raises ZeroDivisionError when
\* total_time is 0; then the handler awaits message.reply_text (line 373).
DeleteStatus(s, ok) ==
    /\ UNCHANGED modVars
    /\ UNCHANGED <<returned, cancelled, total_time, attempt, original_filename>>
    /\ UNCHANGED <<handler, last_hook>>
    /\ pc[s] = "deleting"
    /\ pc' = [pc EXCEPT ![s] =
                 IF ok /\ total_time[s] # 0 THEN "replying" ELSE "error"]
    /\ fault' = [fault EXCEPT ![s] =
                    IF ~ok THEN "delete"
                    ELSE IF total_time[s] = 0 THEN "zero_division" ELSE @]
    /\ UNCHANGED <<file_size, dl, pos, upload_id, parts, part_number, uploaded_size,
                   inflight, result, success, events, start_time, uploader_start_time, now, renders,
                   calls, storeParts, storeObject, web_link>>

\* message.reply_text of line 373 returns: the link is with the user and the
\* handler ends; or it raises and the handler ends in its except clause.
ReplyLink(s, replyOk) ==
    /\ UNCHANGED modVars
    /\ UNCHANGED <<returned, cancelled, total_time, attempt, original_filename>>
    /\ UNCHANGED <<handler, last_hook>>
    /\ pc[s] = "replying"
    /\ pc' = [pc EXCEPT ![s] = IF replyOk THEN "done" ELSE "error"]
    /\ web_link' = [web_link EXCEPT ![s] = replyOk]
    /\ fault' = [fault EXCEPT ![s] = IF ~replyOk THEN "reply" ELSE @]
    /\ UNCHANGED <<file_size, dl, pos, upload_id, parts, part_number, uploaded_size,
                   inflight, result, success, events, start_time, uploader_start_time, now, renders,
                   calls, storeParts, storeObject>>

\* ------------------------------------------- true_instant_upload_handler
\* InstantUploadS3Client defines start_multipart_upload, upload_part,
\* complete_multipart_upload and generate_presigned_url: no upload_fileobj.
HasUploadFileobj == FALSE

\* Lines 388-403, up to the first await: /fast must reply to a document or
\* video of at most FAST_LIMIT; the handler is then suspended in
\* message.reply_text, of a refusal (line 391 or 400) or of the status message
\* (line 403).
FastReceive(s, hasFile, size, name) ==
    /\ UNCHANGED modVars
    /\ UNCHANGED <<returned, cancelled, total_time, attempt>>
    /\ UNCHANGED <<fault, last_hook>>
    /\ CanReceive(s)
    /\ handler' = [handler EXCEPT ![s] = "fast"]
    /\ file_size' = [file_size EXCEPT ![s] = IF hasFile THEN size ELSE 0]
    /\ original_filename' = [original_filename EXCEPT ![s] = IF hasFile THEN name ELSE @]
    /\ pc' = [pc EXCEPT ![s] =
                 IF ~hasFile \/ size > FAST_LIMIT THEN "rejecting" ELSE "fast_accepting"]
    /\ UNCHANGED <<dl, pos, upload_id, parts, part_number, uploaded_size, inflight,
                   result, success, events, start_time, uploader_start_time, now, renders, calls,
                   storeParts, storeObject, web_link>>

\* message.reply_text of line 391, 400 or 403 returns or raises.  The awaits are
\* outside the try of line 406: an exception leaves the handler.  After line
\* 403 the handler reads start_time (line 404) and awaits the download.
FastReplied(s, ok) ==
    /\ UNCHANGED modVars
    /\ UNCHANGED <<returned, cancelled, total_time, attempt, original_filename>>
    /\ UNCHANGED <<handler, fault, last_hook, uploader_start_time>>
    /\ handler[s] = "fast"
    /\ pc[s] \in {"rejecting", "fast_accepting"}
    /\ IF ok /\ pc[s] = "fast_accepting"
       THEN /\ pc' = [pc EXCEPT ![s] = "fast_downloading"]
            /\ start_time' = [start_time EXCEPT ![s] = now]
       ELSE /\ pc' = [pc EXCEPT ![s] = IF ok THEN "rejected" ELSE "raised"]
            /\ UNCHANGED start_time
    /\ UNCHANGED <<file_size, dl, pos, upload_id, parts, part_number, uploaded_size,
                   inflight, result, success, events, now, renders, calls,
                   storeParts, storeObject, web_link>>

\* Lines 408-412: msg.download(in_memory=True) returns the bytes or raises;
\* then generate_s3_key raises TypeError for a media without a file name (inside
\* the try: the except clause reports it), else the lambda calling
\* s3_client.upload_fileobj is dispatched to the executor.
FastDownload(s, ok) ==
    /\ UNCHANGED modVars
    /\ UNCHANGED <<returned, cancelled, total_time, attempt, original_filename>>
    /\ UNCHANGED <<handler, last_hook>>
    /\ pc[s] = "fast_downloading"
    /\ dl' = [dl EXCEPT ![s] = IF ok THEN file_size[s] ELSE @]
    /\ pc' = [pc EXCEPT ![s] =
                 IF ok /\ ~S3KeyRaises(original_filename[s])
                 THEN "fast_uploading" ELSE "error"]
    /\ fault' = [fault EXCEPT ![s] =
                    IF ~ok THEN "download"
                    ELSE IF S3KeyRaises(original_filename[s]) THEN "type_error"
                    ELSE @]
    /\ UNCHANGED <<file_size, pos, upload_id, parts, part_number, uploaded_size,
                   inflight, result, success, events, start_time, uploader_start_time, now, renders,
                   calls, storeParts, storeObject, web_link>>

\* Lines 416-440: the lambda raises AttributeError in the worker (the client has
\* no upload_fileobj), the await re-raises it and the except clause reports it.
\* Were the method there, its result would decide between link and failure.
FastUpload(s, ok, urlOk) ==
    /\ UNCHANGED modVars
    /\ UNCHANGED <<returned, cancelled, total_time, attempt, original_filename>>
    /\ UNCHANGED <<handler, last_hook>>
    /\ pc[s] = "fast_uploading"
    /\ IF ~HasUploadFileobj
       THEN /\ pc' = [pc EXCEPT ![s] = "error"]
            /\ fault' = [fault EXCEPT ![s] = "attribute"]
            /\ UNCHANGED <<calls, storeObject, web_link>>
       ELSE /\ calls' = [calls EXCEPT ![s] =
                   IF ok THEN <<Call("put", 0, <<>>, TRUE),
                                Call("url", 0, <<>>, urlOk)>>
                   ELSE <<Call("put", 0, <<>>, FALSE)>>]
            /\ storeObject' = [storeObject EXCEPT ![s] =
                                  IF ok THEN ObjectBytes(file_size[s]) ELSE @]
            /\ web_link' = [web_link EXCEPT ![s] = ok]
            /\ pc' = [pc EXCEPT ![s] = IF ok THEN "done" ELSE "failed_complete"]
            /\ UNCHANGED fault
    /\ UNCHANGED <<file_size, dl, pos, upload_id, parts, part_number, uploaded_size,
                   inflight, result, success, events, start_time, uploader_start_time, now, renders,
                   storeParts>>

\* ------------------------------------------------------------------ Next
Next ==
    \/ Tick
    \/ \E s \in Sessions : RunProgressHook(s)
    \/ \E s \in Sessions, size \in Sizes, name \in FileNames : Receive(s, size, name)
    \/ \E s \in Sessions, ok \in BOOLEAN, late \in 0..1 : ReceiveReplied(s, ok, late)
    \/ \E s \in Sessions, ok \in BOOLEAN, kind \in ErrorKinds : StartUpload(s, ok, kind)
    \/ \E s \in Sessions : StartResume(s)
    \/ \E s \in Sessions, editOk \in BOOLEAN : StartEdited(s, editOk)
    \/ \E s \in Sessions, n \in 1..MAX_FILE_SIZE : DownloadStep(s, n)
    \/ \E s \in Sessions : DownloadDone(s)
    \/ \E s \in Sessions : DownloadFail(s)
    \/ \E s \in Sessions : ReadChunk(s)
    \/ \E s \in Sessions, ok \in BOOLEAN, kind \in ErrorKinds : UploadPart(s, ok, kind)
    \/ \E s \in Sessions : UploadPartReturn(s)
    \/ \E s \in Sessions : UploadChunkResume(s)
    \/ \E s \in Sessions, ok \in BOOLEAN, kind \in ErrorKinds : CompleteUpload(s, ok, kind)
    \/ \E s \in Sessions, urlOk \in BOOLEAN, kind \in ErrorKinds :
          FinishHandler(s, urlOk, kind)
    \/ \E s \in Sessions, editOk \in BOOLEAN : FailureEdited(s, editOk)
    \/ \E s \in Sessions, ok \in BOOLEAN : DeleteStatus(s, ok)
    \/ \E s \in Sessions, replyOk \in BOOLEAN : ReplyLink(s, replyOk)
    \/ \E s \in Sessions, hasFile \in BOOLEAN, size \in Sizes, name \in FileNames :
          FastReceive(s, hasFile, size, name)
    \/ \E s \in Sessions, ok \in BOOLEAN : FastReplied(s, ok)
    \/ \E s \in Sessions, ok \in BOOLEAN : FastDownload(s, ok)
    \/ \E s \in Sessions, ok \in BOOLEAN, urlOk \in BOOLEAN : FastUpload(s, ok, urlOk)

Spec == Init /\ [][Next]_vars

\* ----------------------------------------------- moderation bot: commands
\* Database.get_settings, lines 131-140: a chat that has no row in
\* chat_settings gets one, of the column defaults.  get_text (line 348) reads
\* the chat's language through it.
GetSettings(present, c) == present \cup {c}

\* Variant: the member's status is fetched but never tested.
CheckAdminOpen(private, status) == private \/ status \in Statuses

\* check_admin, lines 404-414: anyone in a private chat, else the chat's
\* administrators and its owner.
CheckAdmin(private, status) == private \/ status \in AdminStatuses

\* What a command handler did last: the command, the chat, the sender's
\* status, the argument and the reply it sent; turn alternates with every
\* command handled, so that a step that handles a command changes the record.
CmdOut(cmd, c, private, status, arg, reply) ==
    [cmd |-> cmd, chat |-> c, private |-> private, status |-> status,
     arg |-> arg, reply |-> reply, turn |-> 1 - cmd_out.turn]

\* The reply of a handler whose try holds the Telegram call and the
\* confirmation reply_text, and whose except clause replies with the error:
\* the confirmation, the error text, or none when that reply raises as well.
TryReply(ok, replyOk, errOk) ==
    IF ok /\ replyOk THEN "done" ELSE IF errOk THEN "error" ELSE "raised"

\* /ban as a reply to a message of u (or not a reply); chat.ban_member and the
\* confirmation reply return or raise, and so does the reply of the except
\* clause.  Lines 423-435.
Ban(u, private, status, hasReply, ok, replyOk, errOk) ==
    /\ UNCHANGED botVars
    /\ rows' = IF ~CheckAdmin(private, status) \/ (hasReply /\ ok)
                THEN GetSettings(rows, HomeChat) ELSE rows
    /\ UNCHANGED <<warns, warn_out, settings, flood_cache, wall, msgs,
                   flood_out, muted, kicked, captcha_msgs, captcha_out>>
    /\ IF ~CheckAdmin(private, status)
       THEN /\ cmd_out' = CmdOut("ban", HomeChat, private, status, "none", "admin_only")
            /\ UNCHANGED banned
       ELSE IF ~hasReply
       THEN /\ cmd_out' = CmdOut("ban", HomeChat, private, status, "none", "usage")
            /\ UNCHANGED banned
       ELSE /\ cmd_out' = CmdOut("ban", HomeChat, private, status, "none",
                                 TryReply(ok, replyOk, errOk))
            /\ banned' = IF ok THEN banned \cup {u} ELSE banned

\* /mute, lines 437-449: restrict_member with can_send_messages=False, then
\* the confirmation reply, both in the try.
Mute(u, private, status, hasReply, ok, replyOk, errOk) ==
    /\ UNCHANGED botVars
    /\ rows' = IF ~CheckAdmin(private, status) \/ (hasReply /\ ok)
                THEN GetSettings(rows, HomeChat) ELSE rows
    /\ UNCHANGED <<warns, banned, warn_out, settings, flood_cache, wall,
                   msgs, flood_out, kicked, captcha_msgs, captcha_out>>
    /\ IF ~CheckAdmin(private, status)
       THEN /\ cmd_out' = CmdOut("mute", HomeChat, private, status, "none", "admin_only")
            /\ UNCHANGED muted
       ELSE IF ~hasReply
       THEN /\ cmd_out' = CmdOut("mute", HomeChat, private, status, "none", "none")
            /\ UNCHANGED muted
       ELSE /\ cmd_out' = CmdOut("mute", HomeChat, private, status, "none",
                                 TryReply(ok, replyOk, errOk))
            /\ muted' = IF ok THEN muted \cup {u} ELSE muted

\* /kick, lines 451-461: unban_member removes the user from the chat; the
\* confirmation reply follows it in the try.
Kick(u, private, status, hasReply, ok, replyOk, errOk) ==
    /\ UNCHANGED botVars
    /\ rows' = IF ~CheckAdmin(private, status) \/ (hasReply /\ ok)
                THEN GetSettings(rows, HomeChat) ELSE rows
    /\ UNCHANGED <<warns, banned, warn_out, settings, flood_cache, wall,
                   msgs, flood_out, muted, captcha_msgs, captcha_out>>
    /\ IF ~CheckAdmin(private, status)
       THEN /\ cmd_out' = CmdOut("kick", HomeChat, private, status, "none", "admin_only")
            /\ UNCHANGED kicked
       ELSE IF ~hasReply
       THEN /\ cmd_out' = CmdOut("kick", HomeChat, private, status, "none", "none")
            /\ UNCHANGED kicked
       ELSE /\ cmd_out' = CmdOut("kick", HomeChat, private, status, "none",
                                 TryReply(ok, replyOk, errOk))
            /\ kicked' = IF ok THEN kicked \cup {u} ELSE kicked

\* Database.add_warn, lines 147-156: the new count, 1 when there is no row.
AddWarn(count) == count + 1

\* warn, line 474: the count that triggers the ban.
ReachesMax(cur, max_warns) == cur >= max_warns

\* /warn as a reply to a message of u or not; chat.ban_member returns or
\* raises (the target is an administrator, the bot has no right to ban, the
\* chat is private).  Lines 463-479.
Warn(u, private, status, hasReply, banOk) ==
    /\ UNCHANGED botVars
    /\ rows' = IF ~CheckAdmin(private, status) \/ hasReply
                THEN GetSettings(rows, HomeChat) ELSE rows
    /\ UNCHANGED <<settings, flood_cache, wall, msgs, flood_out, muted,
                   kicked, captcha_msgs, captcha_out>>
    /\ warns[u] < MaxWarnCount
    /\ IF ~CheckAdmin(private, status)
       THEN /\ cmd_out' = CmdOut("warn", HomeChat, private, status, "none", "admin_only")
            /\ UNCHANGED <<warns, banned, warn_out>>
       ELSE IF ~hasReply
       THEN /\ cmd_out' = CmdOut("warn", HomeChat, private, status, "none", "none")
            /\ UNCHANGED <<warns, banned, warn_out>>
       ELSE LET cur == AddWarn(warns[u]) IN
            IF ReachesMax(cur, DEFAULT_MAX_WARNS)
            THEN IF banOk
                 THEN /\ banned' = banned \cup {u}
                      /\ warns' = [warns EXCEPT ![u] = 0]
                      /\ warn_out' = [warn_out EXCEPT ![u] = [kind |-> "banned", cur |-> cur]]
                      /\ cmd_out' = CmdOut("warn", HomeChat, private, status, "none", "done")
                 ELSE /\ warns' = [warns EXCEPT ![u] = cur]
                      /\ warn_out' = [warn_out EXCEPT ![u] = [kind |-> "ban_raised", cur |-> cur]]
                      /\ cmd_out' = CmdOut("warn", HomeChat, private, status, "none", "raised")
                      /\ UNCHANGED banned
            ELSE /\ warns' = [warns EXCEPT ![u] = cur]
                 /\ warn_out' = [warn_out EXCEPT ![u] = [kind |-> "warned", cur |-> cur]]
                 /\ cmd_out' = CmdOut("warn", HomeChat, private, status, "none", "done")
                 /\ UNCHANGED banned

\* /unwarn, lines 481-487: Database.reset_warns deletes the row.
Unwarn(u, private, status, hasReply) ==
    /\ UNCHANGED botVars
    /\ rows' = IF ~CheckAdmin(private, status) \/ hasReply
                THEN GetSettings(rows, HomeChat) ELSE rows
    /\ UNCHANGED <<banned, warn_out, settings, flood_cache, wall, msgs,
                   flood_out, muted, kicked, captcha_msgs, captcha_out>>
    /\ IF ~CheckAdmin(private, status)
       THEN /\ cmd_out' = CmdOut("unwarn", HomeChat, private, status, "none", "admin_only")
            /\ UNCHANGED warns
       ELSE IF ~hasReply
       THEN /\ cmd_out' = CmdOut("unwarn", HomeChat, private, status, "none", "none")
            /\ UNCHANGED warns
       ELSE /\ cmd_out' = CmdOut("unwarn", HomeChat, private, status, "none", "done")
            /\ warns' = [warns EXCEPT ![u] = 0]

\* /forget sent by issuer, as a reply to a message of u or not (then the
\* target is the issuer); Database.forget_user deletes the target's warns row
\* (table user_data is never written).  Lines 489-498 and 162-166.
Forget(issuer, u, private, status, hasReply) ==
    /\ UNCHANGED botVars
    /\ rows' = GetSettings(rows, HomeChat)
    /\ UNCHANGED <<banned, warn_out, settings, flood_cache, wall, msgs,
                   flood_out, muted, kicked, captcha_msgs, captcha_out>>
    /\ IF ~CheckAdmin(private, status)
       THEN /\ cmd_out' = CmdOut("forget", HomeChat, private, status, "none", "admin_only")
            /\ UNCHANGED warns
       ELSE /\ cmd_out' = CmdOut("forget", HomeChat, private, status, "none", "done")
            /\ warns' = [warns EXCEPT ![IF hasReply THEN u ELSE issuer] = 0]

\* Database.update_setting, lines 142-145: UPDATE ... WHERE chat_id=?, which
\* changes nothing for a chat that has no row.
UpdateSetting(tbl, present, c, key, value) ==
    IF c \in present THEN [tbl EXCEPT ![c][key] = value] ELSE tbl

\* /lang <code> in chat c, lines 503-512; arg "none": no argument.  The reply
\* is taken from STRINGS, not through get_text.
SetLang(c, private, status, arg) ==
    /\ UNCHANGED botVars
    /\ rows' = IF ~CheckAdmin(private, status) THEN GetSettings(rows, c) ELSE rows
    /\ UNCHANGED <<warns, banned, warn_out, flood_cache, wall, msgs,
                   flood_out, muted, kicked, captcha_msgs, captcha_out>>
    /\ IF ~CheckAdmin(private, status)
       THEN /\ cmd_out' = CmdOut("lang", c, private, status, arg, "admin_only")
            /\ UNCHANGED settings
       ELSE IF arg \in Langs
       THEN /\ cmd_out' = CmdOut("lang", c, private, status, arg, "done")
            /\ settings' = UpdateSetting(settings, rows, c, "lang", arg)
       ELSE /\ cmd_out' = CmdOut("lang", c, private, status, arg, "usage")
            /\ UNCHANGED settings

\* /setrules in chat c, lines 514-529; text: the argument text or the text of
\* the replied-to message, "" when there is neither.  The reply to a stored
\* text is read through get_text, after the update.
SetRules(c, private, status, text) ==
    /\ UNCHANGED botVars
    /\ rows' = IF ~CheckAdmin(private, status) \/ text # ""
                THEN GetSettings(rows, c) ELSE rows
    /\ UNCHANGED <<warns, banned, warn_out, flood_cache, wall, msgs,
                   flood_out, muted, kicked, captcha_msgs, captcha_out>>
    /\ IF ~CheckAdmin(private, status)
       THEN /\ cmd_out' = CmdOut("setrules", c, private, status, text, "admin_only")
            /\ UNCHANGED settings
       ELSE IF text # ""
       THEN /\ cmd_out' = CmdOut("setrules", c, private, status, text, "done")
            /\ settings' = UpdateSetting(settings, rows, c, "rules", text)
       ELSE /\ cmd_out' = CmdOut("setrules", c, private, status, text, "usage")
            /\ UNCHANGED settings

\* /setwelcomeimage in chat c, lines 540-554; arg "none": no argument,
\* "url": starts with http:// or https://, anything else: not a URL.
SetWelcomeImage(c, private, status, arg) ==
    /\ UNCHANGED botVars
    /\ rows' = IF ~CheckAdmin(private, status) THEN GetSettings(rows, c) ELSE rows
    /\ UNCHANGED <<warns, banned, warn_out, flood_cache, wall, msgs,
                   flood_out, muted, kicked, captcha_msgs, captcha_out>>
    /\ IF ~CheckAdmin(private, status)
       THEN /\ cmd_out' = CmdOut("setwelcomeimage", c, private, status, arg, "admin_only")
            /\ UNCHANGED settings
       ELSE IF arg = "url"
       THEN /\ cmd_out' = CmdOut("setwelcomeimage", c, private, status, arg, "done")
            /\ settings' = UpdateSetting(settings, rows, c, "welcome_image", arg)
       ELSE /\ cmd_out' = CmdOut("setwelcomeimage", c, private, status, arg, "usage")
            /\ UNCHANGED settings

\* toggle_setting's map_key, lines 567-572.
MapKey ==
    [captcha |-> "captcha_enabled", antiflood |-> "anti_flood_enabled",
     links |-> "block_links", media |-> "block_media"]

\* Variant: the flag is set, whatever it was.
NewValSet(cur) == 1

\* toggle_setting, line 576: new_val = 0 if current[key] else 1.
NewVal(cur) == IF cur # 0 THEN 0 ELSE 1

\* The chat's row after /toggle <name>: lines 574-578, unchanged for a name
\* that is not in map_key.
ToggleRow(row, name) ==
    IF name \in DOMAIN MapKey
    THEN [row EXCEPT ![MapKey[name]] = NewVal(row[MapKey[name]])]
    ELSE row

\* /toggle <name> in chat c, lines 556-582; name "none": no argument.  The
\* row is read with get_settings (line 566) before it is updated.
ToggleSetting(c, private, status, name) ==
    /\ UNCHANGED botVars
    /\ rows' = IF ~CheckAdmin(private, status) \/ name # "none"
                THEN GetSettings(rows, c) ELSE rows
    /\ UNCHANGED <<warns, banned, warn_out, flood_cache, wall, msgs,
                   flood_out, muted, kicked, captcha_msgs, captcha_out>>
    /\ IF ~CheckAdmin(private, status)
       THEN /\ cmd_out' = CmdOut("toggle", c, private, status, name, "admin_only")
            /\ UNCHANGED settings
       ELSE IF name = "none"
       THEN /\ cmd_out' = CmdOut("toggle", c, private, status, name, "usage")
            /\ UNCHANGED settings
       ELSE IF name \in DOMAIN MapKey
       THEN /\ cmd_out' = CmdOut("toggle", c, private, status, name, "done")
            /\ settings' = UpdateSetting(settings, GetSettings(rows, c), c,
                                         MapKey[name],
                                         ToggleRow(settings[c], name)[MapKey[name]])
       ELSE /\ cmd_out' = CmdOut("toggle", c, private, status, name, "unknown")
            /\ UNCHANGED settings

\* The arguments /toggle is tried with.
ToggleNames == {"none", "captcha", "antiflood", "links", "media", "other"}

\* ------------------------------------- moderation bot: ungated handlers
\* /rules in chat c, lines 531-538: the rules are read with get_settings.
GetRules(c) ==
    /\ UNCHANGED botVars
    /\ UNCHANGED <<warns, banned, warn_out, settings, flood_cache, wall, msgs,
                   flood_out, muted, kicked, captcha_msgs, cmd_out, captcha_out>>
    /\ rows' = GetSettings(rows, c)

\* /start in chat c, lines 357-379: the welcome text is read through get_text,
\* in a private chat and in a group.
Start(c) ==
    /\ UNCHANGED botVars
    /\ UNCHANGED <<warns, banned, warn_out, settings, flood_cache, wall, msgs,
                   flood_out, muted, kicked, captcha_msgs, cmd_out, captcha_out>>
    /\ rows' = GetSettings(rows, c)

\* /help in chat c, lines 381-399: the help text is read through get_text.
HelpCommand(c) ==
    /\ UNCHANGED botVars
    /\ UNCHANGED <<warns, banned, warn_out, settings, flood_cache, wall, msgs,
                   flood_out, muted, kicked, captcha_msgs, cmd_out, captcha_out>>
    /\ rows' = GetSettings(rows, c)

\* /crypto in chat c, lines 587-603: once the price service answered, the
\* reply is read through get_text; when the request raises, nothing is read.
Crypto(c, ok) ==
    /\ UNCHANGED botVars
    /\ UNCHANGED <<warns, banned, warn_out, settings, flood_cache, wall, msgs,
                   flood_out, muted, kicked, captcha_msgs, cmd_out, captcha_out>>
    /\ rows' = IF ok THEN GetSettings(rows, c) ELSE rows

\* handle_left_member in chat c, lines 658-665: for a user who is not a bot
\* the goodbye text is read with get_settings.
LeftMember(c, isBot) ==
    /\ UNCHANGED botVars
    /\ UNCHANGED <<warns, banned, warn_out, settings, flood_cache, wall, msgs,
                   flood_out, muted, kicked, captcha_msgs, cmd_out, captcha_out>>
    /\ rows' = IF isBot THEN rows ELSE GetSettings(rows, c)

\* ------------------------------------------------- moderation bot: warns
NextWarn ==
    \/ \E u \in Users, private \in BOOLEAN, status \in Statuses,
          hasReply \in BOOLEAN, banOk \in BOOLEAN :
          Warn(u, private, status, hasReply, banOk)
    \/ \E u \in Users, private \in BOOLEAN, status \in Statuses, hasReply \in BOOLEAN :
          Unwarn(u, private, status, hasReply)

SpecWarn == Init /\ [][NextWarn]_vars

\* ------------------------------------------- moderation bot: admin gating
\* The ten gated commands, sent in HomeChat about user 1 by a sender of any
\* status; the Telegram calls return, but for the confirmation reply of
\* /ban.  The commands and the event anyone can cause: /rules, /start, /help,
\* /crypto and a member leaving.
NextAdmin ==
    \/ \E c \in Chats : GetRules(c)
    \/ \E c \in Chats : Start(c)
    \/ \E c \in Chats : HelpCommand(c)
    \/ \E c \in Chats, ok \in BOOLEAN : Crypto(c, ok)
    \/ \E c \in Chats, isBot \in BOOLEAN : LeftMember(c, isBot)
    \/ \E private \in BOOLEAN, status \in Statuses, hasReply \in BOOLEAN :
          \E replyOk \in BOOLEAN : Ban(1, private, status, hasReply, TRUE, replyOk, TRUE)
    \/ \E private \in BOOLEAN, status \in Statuses :
          Mute(1, private, status, TRUE, TRUE, TRUE, TRUE)
    \/ \E private \in BOOLEAN, status \in Statuses :
          Kick(1, private, status, TRUE, TRUE, TRUE, TRUE)
    \/ \E private \in BOOLEAN, status \in Statuses : Warn(1, private, status, TRUE, TRUE)
    \/ \E private \in BOOLEAN, status \in Statuses : Unwarn(1, private, status, TRUE)
    \/ \E private \in BOOLEAN, status \in Statuses : Forget(2, 1, private, status, TRUE)
    \/ \E private \in BOOLEAN, status \in Statuses : SetLang(HomeChat, private, status, "es")
    \/ \E private \in BOOLEAN, status \in Statuses :
          SetRules(HomeChat, private, status, "rules")
    \/ \E private \in BOOLEAN, status \in Statuses :
          SetWelcomeImage(HomeChat, private, status, "url")
    \/ \E private \in BOOLEAN, status \in Statuses :
          ToggleSetting(HomeChat, private, status, "links")

SpecAdmin == Init /\ [][NextAdmin]_vars

\* ------------------------------------------------ moderation bot: /toggle
NextToggle ==
    \E c \in Chats, private \in BOOLEAN, status \in Statuses, name \in ToggleNames :
        ToggleSetting(c, private, status, name)

SpecToggle == Init /\ [][NextToggle]_vars

\* -------------------------------------------- moderation bot: anti-flood
\* Variant: a timestamp exactly FLOOD_WINDOW old is kept.
InWindowInclusive(t_now, t) == t_now - t <= FLOOD_WINDOW

\* message_filter, line 702: the timestamps kept.
InWindow(t_now, t) == t_now - t < FLOOD_WINDOW

\* message_filter, line 705.
Flooding(user_flood) == Len(user_flood) > FLOOD_LIMIT

TotalMsgs == Len(msgs[1]) + Len(msgs[2])

\* The messages dispatched to message_filter: a text or a media message
\* (photo, video, document, sticker), with an http(s) URL in it or not.  A
\* media message carries its words in message.caption; message.text is None.
MsgKinds == {"text", "text_link", "media", "media_link"}

\* message_filter, line 713: the URL pattern is searched in message.text or "".
LinkFound(kind) == kind = "text_link"

\* message_filter, line 723: photo, video, document or sticker.
MediaFound(kind) == kind \in {"media", "media_link"}

\* message_filter on a message of u, of the given kind, u's status in the chat
\* being status.  Lines 689-729: the anti-flood check returns when it warns;
\* then the link check and the media check ask for the sender's status
\* (get_member, lines 715 and 725) and delete a non-admin's message (lines 717
\* and 727).  None of these awaits is in a try: when one raises the handler
\* ends there.
MessageFilter(u, status, kind, memberOk, deleteOk) ==
    /\ UNCHANGED botVars
    /\ rows' = GetSettings(rows, HomeChat)
    /\ UNCHANGED <<warns, banned, warn_out, settings, wall, muted, kicked,
                   captcha_msgs, cmd_out, captcha_out>>
    /\ TotalMsgs < MaxMsgs
    /\ LET s == settings[HomeChat]
           enabled == s.anti_flood_enabled # 0
           kept == SelectSeq(flood_cache[u], LAMBDA t : InWindow(wall, t))
           user_flood == Append(kept, wall)
           warned == enabled /\ Flooding(user_flood)
           admin == status \in AdminStatuses
           asked ==
               /\ ~warned
               /\ \/ s.block_links # 0 /\ LinkFound(kind)
                  \/ s.block_media # 0 /\ MediaFound(kind)
           wanted == asked /\ memberOk /\ ~admin
           deleted == wanted /\ deleteOk
           raised == IF asked /\ ~memberOk THEN "get_member"
                     ELSE IF wanted /\ ~deleteOk THEN "delete" ELSE "none"
       IN
       /\ msgs' = [msgs EXCEPT ![u] = Append(@, [t |-> wall, enabled |-> enabled])]
       /\ flood_cache' = [flood_cache EXCEPT ![u] = IF enabled THEN user_flood ELSE @]
       /\ flood_out' = [flood_out EXCEPT ![u] =
              [ran |-> TRUE, at |-> wall, checked |-> enabled, warned |-> warned,
               kind |-> kind, admin |-> admin, links_on |-> s.block_links # 0,
               media_on |-> s.block_media # 0, deleted |-> deleted,
               raised |-> raised]]

\* time.time() moves on.
Advance ==
    /\ UNCHANGED botVars
    /\ UNCHANGED <<warns, banned, warn_out, settings, flood_cache, msgs,
                   flood_out, muted, kicked, captcha_msgs, cmd_out,
                   captcha_out, rows>>
    /\ wall < MaxWall
    /\ wall' = wall + 1

\* Plain text messages of ordinary members, /toggle antiflood by an admin.
NextFlood ==
    \/ \E u \in Users : MessageFilter(u, "member", "text", TRUE, TRUE)
    \/ \E status \in Statuses : ToggleSetting(HomeChat, FALSE, status, "antiflood")
    \/ Advance

SpecFlood == Init /\ [][NextFlood]_vars

\* ------------------------------------- moderation bot: link and media blocks
\* Messages of every kind from user 1, as a member or as an administrator,
\* all within one flood window; an administrator toggles anti-flood, link
\* blocking and media blocking.
NextFilter ==
    \/ \E status \in {"member", "administrator"}, kind \in MsgKinds,
          memberOk \in BOOLEAN, deleteOk \in BOOLEAN :
          MessageFilter(1, status, kind, memberOk, deleteOk)
    \/ \E name \in {"antiflood", "links", "media"} :
          ToggleSetting(HomeChat, FALSE, "administrator", name)

SpecFilter == Init /\ [][NextFilter]_vars

\* ------------------------------------------------ moderation bot: captcha
\* captcha_callback, line 674: the presser must be the button's target.
PressAccepted(user_id, target_id) == user_id = target_id

\* handle_new_members for one new member u, lines 609-656: with captcha on, a
\* user who is not a bot is muted by restrict_member (lines 620-623) and a
\* message with the user's captcha button is sent by reply_html (line 632);
\* otherwise the user is only welcomed.  Neither await is in a try: when
\* restrict_member raises (the bot has no right to restrict, the chat is a
\* basic group, the joiner is an administrator) the handler ends with the
\* user not muted and no button sent; when reply_html raises the user stays
\* muted with no button.
NewMember(u, isBot, restrictOk, replyOk) ==
    /\ UNCHANGED botVars
    /\ rows' = GetSettings(rows, HomeChat)
    /\ UNCHANGED <<warns, banned, warn_out, settings, flood_cache, wall,
                   msgs, flood_out, kicked, cmd_out>>
    /\ captcha_msgs[u] < MaxJoins
    /\ LET enabled == settings[HomeChat].captcha_enabled # 0 IN
       /\ captcha_out' = [kind |-> "join", presser |-> 0, target |-> u,
                          bot |-> isBot, enabled |-> enabled]
       /\ muted' = IF ~isBot /\ enabled /\ restrictOk THEN muted \cup {u} ELSE muted
       /\ captcha_msgs' = IF ~isBot /\ enabled /\ restrictOk /\ replyOk
                          THEN [captcha_msgs EXCEPT ![u] = @ + 1]
                          ELSE captcha_msgs

\* captcha_callback, lines 667-687: presser presses the button "captcha_<target>"
\* of a captcha message that is in place.  For the button's own user
\* restrict_member (line 682) restores the permissions or raises, leaving
\* everything as it was; then query.answer reads its text through get_text,
\* and the captcha message is deleted unless query.answer or the delete raises.
CaptchaPress(presser, target, restrictOk, deleteOk) ==
    /\ UNCHANGED botVars
    /\ rows' = IF PressAccepted(presser, target) /\ restrictOk
                THEN GetSettings(rows, HomeChat) ELSE rows
    /\ UNCHANGED <<warns, banned, warn_out, settings, flood_cache, wall,
                   msgs, flood_out, kicked, cmd_out>>
    /\ captcha_msgs[target] > 0
    /\ captcha_out' = [kind |-> "press", presser |-> presser, target |-> target,
                       bot |-> FALSE, enabled |-> settings[HomeChat].captcha_enabled # 0]
    /\ muted' = IF PressAccepted(presser, target) /\ restrictOk
                 THEN muted \ {presser} ELSE muted
    /\ captcha_msgs' = IF PressAccepted(presser, target) /\ restrictOk /\ deleteOk
                       THEN [captcha_msgs EXCEPT ![target] = @ - 1]
                       ELSE captcha_msgs

NextCaptcha ==
    \/ \E u \in Users, isBot \in BOOLEAN, restrictOk \in BOOLEAN, replyOk \in BOOLEAN :
          NewMember(u, isBot, restrictOk, replyOk)
    \/ \E isBot \in BOOLEAN : LeftMember(HomeChat, isBot)
    \/ \E presser \in Users, target \in Users, restrictOk \in BOOLEAN, deleteOk \in BOOLEAN :
          CaptchaPress(presser, target, restrictOk, deleteOk)
    \/ \E status \in Statuses : ToggleSetting(HomeChat, FALSE, status, "captcha")

SpecCaptcha == Init /\ [][NextCaptcha]_vars

\* ------------------------------------------------------------ scheduling
\* A step of the handler invocation s: the event loop resumes a coroutine
\* whose awaited call has returned, and every awaited call returns or raises
\* (the store client has connect and read timeouts, lines 116-124).
HandlerStep(s) ==
    \/ \E ok \in BOOLEAN, late \in 0..1 : ReceiveReplied(s, ok, late)
    \/ \E ok \in BOOLEAN : FastReplied(s, ok)
    \/ \E ok \in BOOLEAN, kind \in ErrorKinds : StartUpload(s, ok, kind)
    \/ StartResume(s)
    \/ \E editOk \in BOOLEAN : StartEdited(s, editOk)
    \/ \E n \in 1..MAX_FILE_SIZE : DownloadStep(s, n)
    \/ DownloadDone(s)
    \/ DownloadFail(s)
    \/ ReadChunk(s)
    \/ \E ok \in BOOLEAN, kind \in ErrorKinds : UploadPart(s, ok, kind)
    \/ UploadPartReturn(s)
    \/ UploadChunkResume(s)
    \/ \E ok \in BOOLEAN, kind \in ErrorKinds : CompleteUpload(s, ok, kind)
    \/ \E urlOk \in BOOLEAN, kind \in ErrorKinds : FinishHandler(s, urlOk, kind)
    \/ \E editOk \in BOOLEAN : FailureEdited(s, editOk)
    \/ \E ok \in BOOLEAN : DeleteStatus(s, ok)
    \/ \E replyOk \in BOOLEAN : ReplyLink(s, replyOk)
    \/ \E ok \in BOOLEAN : FastDownload(s, ok)
    \/ \E ok \in BOOLEAN, urlOk \in BOOLEAN : FastUpload(s, ok, urlOk)

\* The steps of Next, with the clock advancing by at most LiveMaxTime ticks.
LiveMaxTime == 1

NextLive == Next /\ now' <= LiveMaxTime

SpecLive == Init /\ [][NextLive]_vars /\ \A s \in Sessions : WF_vars(HandlerStep(s))

\* ------------------------------------------------ two concurrent uploads
\* Two users send a file each; the two invocations of instant_upload_handler
\* interleave at their await points, sharing s3_client and the executor.
PairSessions == 1..2
PairSize == CHUNK_SIZE + 1

InitPair ==
    /\ pc = [s \in Sessions |-> IF s \in PairSessions THEN "init" ELSE "off"]
    /\ file_size = [s \in Sessions |-> 0]
    /\ dl = [s \in Sessions |-> 0]
    /\ pos = [s \in Sessions |-> 0]
    /\ upload_id = [s \in Sessions |-> None]
    /\ parts = [s \in Sessions |-> <<>>]
    /\ part_number = [s \in Sessions |-> 1]
    /\ uploaded_size = [s \in Sessions |-> 0]
    /\ inflight = [s \in Sessions |-> <<>>]
    /\ result = [s \in Sessions |-> NoPart]
    /\ success = [s \in Sessions |-> FALSE]
    /\ events = [s \in Sessions |-> <<>>]
    /\ start_time = [s \in Sessions |-> 0]
    /\ uploader_start_time = [s \in Sessions |-> 0]
    /\ now = 0
    /\ renders = [s \in Sessions |-> 0]
    /\ calls = [s \in Sessions |-> <<>>]
    /\ storeParts = [s \in Sessions |-> <<>>]
    /\ storeObject = [s \in Sessions |-> <<>>]
    /\ web_link = [s \in Sessions |-> FALSE]
    /\ handler = [s \in Sessions |-> "none"]
    /\ fault = [s \in Sessions |-> "none"]
    /\ last_hook = [s \in Sessions |-> NoHook]
    /\ returned = [s \in Sessions |-> NoReturn]
    /\ cancelled = [s \in Sessions |-> FALSE]
    /\ total_time = [s \in Sessions |-> 0]
    /\ attempt = [s \in Sessions |-> 0]
    /\ original_filename = [s \in Sessions |-> "none"]
    /\ InitMod

\* The clock of the two transfers advances by at most PairMaxTime ticks, and
\* not between a handler's two reads of it (lines 306 and 196); a store call
\* that fails raises an error the client does not retry.
PairMaxTime == 1

NextPair ==
    \/ now < PairMaxTime /\ Tick
    \/ \E s \in PairSessions : RunProgressHook(s)
    \/ \E s \in PairSessions : Receive(s, PairSize, "file.bin")
    \/ \E s \in PairSessions : ReceiveReplied(s, TRUE, 0)
    \/ \E s \in PairSessions, ok \in BOOLEAN : StartUpload(s, ok, "fatal")
    \/ \E s \in PairSessions : StartResume(s)
    \/ \E s \in PairSessions : StartEdited(s, TRUE)
    \/ \E s \in PairSessions : DownloadStep(s, PairSize)
    \/ \E s \in PairSessions : DownloadDone(s)
    \/ \E s \in PairSessions : ReadChunk(s)
    \/ \E s \in PairSessions, ok \in BOOLEAN : UploadPart(s, ok, "fatal")
    \/ \E s \in PairSessions : UploadPartReturn(s)
    \/ \E s \in PairSessions : UploadChunkResume(s)
    \/ \E s \in PairSessions, ok \in BOOLEAN : CompleteUpload(s, ok, "fatal")
    \/ \E s \in PairSessions, urlOk \in BOOLEAN : FinishHandler(s, urlOk, "fatal")
    \/ \E s \in PairSessions : FailureEdited(s, TRUE)
    \/ \E s \in PairSessions : DeleteStatus(s, TRUE)
    \/ \E s \in PairSessions : ReplyLink(s, TRUE)

SpecPair == InitPair /\ [][NextPair]_vars

\* ------------------------------------------- progress_hook as a function
\* progress_hook applied to any arguments: current bytes out of total, called
\* diff ticks after start_time.
MaxDiff == 2 * TicksPerSec

HookCall(current, total, diff) ==
    /\ UNCHANGED modVars
    /\ last_hook' = [last_hook EXCEPT ![1] = HookRun(current, total, diff)]
    /\ UNCHANGED <<pc, file_size, dl, pos, upload_id, parts, part_number,
                   uploaded_size, inflight, result, success, events, start_time, uploader_start_time,
                   now, renders, calls, storeParts, storeObject, web_link,
                   handler, fault, returned, cancelled, total_time, attempt, original_filename>>

InitHook == Init

NextHook ==
    \E total \in 1..MAX_FILE_SIZE, current \in 0..MAX_FILE_SIZE, diff \in 0..MaxDiff :
        current <= total /\ HookCall(current, total, diff)

SpecHook == InitHook /\ [][NextHook]_vars

\* ------------------------------------------------- external cancel signal
\* Someone outside the handler asks for the transfer of s to stop while the
\* handler is between its download and its completion call.  The handler has
\* no parameter, event or flag through which the request could reach it: the
\* request is recorded here and nothing in the handler's steps reads it.
Cancel(s) ==
    /\ UNCHANGED modVars
    /\ pc[s] \in {"downloading", "reading", "uploading", "part_acked", "returned"}
    /\ ~cancelled[s]
    /\ cancelled' = [cancelled EXCEPT ![s] = TRUE]
    /\ UNCHANGED <<pc, file_size, dl, pos, upload_id, parts, part_number,
                   uploaded_size, inflight, result, success, events, start_time, uploader_start_time,
                   now, renders, calls, storeParts, storeObject, web_link,
                   handler, fault, last_hook, returned, total_time, attempt,
                   original_filename>>

NextCancel ==
    \/ Next
    \/ \E s \in Sessions : Cancel(s)

SpecCancel == Init /\ [][NextCancel]_vars

\* ============================================================== claims
Terminal(s) ==
    pc[s] \in {"done", "rejected", "raised", "failed_start", "failed_complete",
               "failed_url", "error"}

\* The remote multipart session of s was opened / completed by the store.
Opened(s) == \E i \in DOMAIN calls[s] : calls[s][i].op = "start" /\ calls[s][i].ok
Completed(s) == \E i \in DOMAIN calls[s] : calls[s][i].op = "complete" /\ calls[s][i].ok
UrlIssued(s) == \E i \in DOMAIN calls[s] : calls[s][i].op = "url" /\ calls[s][i].ok
PartFailed(s) == \E i \in DOMAIN calls[s] : calls[s][i].op = "part" /\ ~calls[s][i].ok

CallCount(s, op) == Cardinality({i \in DOMAIN calls[s] : calls[s][i].op = op})

Ceil(a, b) == (a + b - 1) \div b

RECURSIVE AckedBytes(_)
AckedBytes(cs) ==
    IF cs = <<>> THEN 0
    ELSE (IF Head(cs).op = "part" /\ Head(cs).ok THEN Len(Head(cs).data) ELSE 0)
         + AckedBytes(Tail(cs))

\* C1: every session whose remote multipart session was opened and that ended
\* without a successful completion had abortSession called exactly once.
C1_AbortExactlyOnce ==
    \A s \in Sessions :
        (Terminal(s) /\ Opened(s) /\ ~Completed(s)) => CallCount(s, "abort") = 1

\* C2: an access URL is issued only if every chunk read (of the dl bytes of
\* the temporary file) was acknowledged as a part and is in the completed
\* object; after a failed part upload no URL is issued for the session.
C2_NoLinkForPartialObject ==
    \A s \in Sessions :
        UrlIssued(s) => (~PartFailed(s) /\ storeObject[s] = ObjectBytes(dl[s]))

\* C3: the presigned-URL call of a session is made only after its completion
\* call returned success, and a link is sent only then.
C3_LinkOnlyAfterCompletion ==
    \A s \in Sessions :
        /\ \A i \in DOMAIN calls[s] :
              calls[s][i].op = "url" =>
                  \E j \in 1..(i - 1) : calls[s][j].op = "complete" /\ calls[s][j].ok
        /\ web_link[s] => Completed(s)

C3_Witness ==
    \E s \in Sessions : pc[s] = "done" /\ web_link[s] /\ UrlIssued(s)

\* C4: after a failed part upload the session is Failed: no further part is
\* submitted, completion is never called, and the handler does not end in success.
C4_PartFailureIsTerminal ==
    \A s \in Sessions :
        /\ \A i \in DOMAIN calls[s], j \in DOMAIN calls[s] :
              (i < j /\ calls[s][i].op = "part" /\ ~calls[s][i].ok)
                  => calls[s][j].op \notin {"part", "complete", "url"}
        /\ PartFailed(s) => pc[s] # "done"

\* C5: a completed transfer of an object of size S (the dl bytes the handler
\* reads from its temporary file) has ceil(S / CHUNK_SIZE) parts, and the
\* parts in ascending order reproduce the object's bytes.
C5_RoundTrip ==
    \A s \in Sessions :
        Completed(s) =>
            /\ Len(parts[s]) = Ceil(dl[s], CHUNK_SIZE)
            /\ storeObject[s] = ObjectBytes(dl[s])

\* C6: whenever the completion call is made, the part list it presents has
\* part numbers 1, 2, ..., n in this order (sorted, no duplicate, no gap).
C6_CompletionPartsContiguous ==
    \A s \in Sessions :
        (pc[s] = "completing" \/ CallCount(s, "complete") > 0) =>
            \A i \in 1..Len(parts[s]) : parts[s][i].PartNumber = i

C6_Witness ==
    \E s \in Sessions :
        pc[s] = "completing" /\ Len(parts[s]) >= 2 /\ PartFailed(s)

C8_BytesDoneEqualsTotalAtCompleted ==
    \A s \in Sessions :
        (Completed(s) /\ dl[s] = file_size[s]) => uploaded_size[s] = file_size[s]

\* C9: uploaded_size is the number of bytes of the parts the store has
\* acknowledged: a part in flight or a failed part adds nothing.
C9_BytesDoneCountsAckedOnly ==
    \A s \in Sessions : uploaded_size[s] = AckedBytes(calls[s])

C9_Witness ==
    \E s \in Sessions :
        pc[s] = "uploading" /\ PartFailed(s) /\ uploaded_size[s] > 0

\* C10: within one second, the progress events that are not final make at
\* most one render attempt (message.edit_text).
C10_OneRenderPerSecond ==
    \A s \in Sessions : renders[s] <= 1


\* The size limit of the handler that took the message.
Limit(h) == IF h = "fast" THEN FAST_LIMIT ELSE MAX_FILE_SIZE

\* Chunks of s read from the temporary file whose upload_part call has not
\* returned yet.
Outstanding(s) ==
    Ceil(pos[s], CHUNK_SIZE) - CallCount(s, "part")
        + (IF pc[s] = "part_acked" THEN 1 ELSE 0)

\* C11: a progress event with current = total always attempts a render,
\* wherever in the second it arrives.
C11_FinalEventRenders ==
    \A s \in Sessions :
        (last_hook[s].ran /\ last_hook[s].current = file_size[s])
            => last_hook[s].rendered

C11_Witness ==
    \E s \in Sessions :
        /\ last_hook[s].ran /\ last_hook[s].current = file_size[s]
        /\ 2 * last_hook[s].frac > TicksPerSec
        /\ last_hook[s].rendered

\* C12: an object whose declared size exceeds the handler's limit is rejected
\* with no remote-store call made and nothing read from the source: the
\* handler only sends the rejection text and ends.
C12_OversizeRejectedFirst ==
    \A s \in Sessions :
        (handler[s] # "none" /\ file_size[s] > Limit(handler[s])) =>
            /\ pc[s] \in {"rejecting", "rejected", "raised"}
            /\ calls[s] = <<>>
            /\ dl[s] = 0 /\ pos[s] = 0

C12_Witness ==
    \E s \in Sessions :
        handler[s] = "instant" /\ file_size[s] > MAX_FILE_SIZE /\ pc[s] = "rejected"

\* C13: after a failed session start the session is failed at once: the start
\* call is the only remote call ever made for it, no upload id is kept, the
\* handler only reports the failure (the status edit of line 315) and ends,
\* and no link is sent.
C13_StartFailureMakesNoCall ==
    \A s \in Sessions :
        (\E i \in DOMAIN calls[s] : calls[s][i].op = "start" /\ ~calls[s][i].ok) =>
            /\ Len(calls[s]) = 1
            /\ upload_id[s] = None
            /\ pc[s] \in {"start_returned", "start_edit", "failed_start", "error"}
            /\ pc[s] = "error" => fault[s] = "edit"
            /\ ~web_link[s]

C13_Witness ==
    \E s \in Sessions : pc[s] = "failed_start" /\ Len(calls[s]) = 1

\* C14: uploading begins before the inbound object is fully on local disk:
\* when the first part is dispatched the download is not complete.
C14_UploadStartsBeforeDownloadEnds ==
    \A s \in Sessions :
        (pc[s] = "uploading" /\ CallCount(s, "part") = 0) => dl[s] < file_size[s]

\* C15: the chunks of a session read but not yet returned by upload_part are
\* never more than the worker-pool size.
C15_OutstandingChunksBounded ==
    \A s \in Sessions : Outstanding(s) <= MAX_WORKERS

C15_Witness ==
    \E s \in Sessions :
        pc[s] = "uploading" /\ Outstanding(s) = 1 /\ CallCount(s, "part") >= 1

\* C16: the step of a worker thread (upload_part running up to its callback or
\* to its return) never changes uploaded_size.
C16_WorkerLeavesBytesDone ==
    [][\A s \in Sessions :
          (pc[s] = "uploading" /\ pc'[s] \in {"part_acked", "returned"})
              => uploaded_size'[s] = uploaded_size[s]]_vars

\* C17: no transfer is ended by a failed edit of the status message.
C17_StatusEditFailureNonFatal ==
    \A s \in Sessions : fault[s] # "edit"

\* C18: every session whose handler was started reaches a terminal outcome,
\* and once a session is terminal its outcome, its remote calls, its
\* upload_id and its parts list never change again: no second outcome, no
\* second inbound object.
C18_TerminalIsFinal ==
    /\ [][\A s \in Sessions :
             Terminal(s) =>
                 /\ pc'[s] = pc[s]
                 /\ calls'[s] = calls[s]
                 /\ upload_id'[s] = upload_id[s]
                 /\ parts'[s] = parts[s]]_vars
    /\ <>[](\A s \in Sessions : handler[s] # "none" => Terminal(s))

C18_Witness ==
    \E s \in Sessions : Terminal(s) /\ Completed(s) /\ events[s] # <<>>

\* C19: upload_id is set once start_upload returned from a start that
\* succeeded, and every part upload or completion call is made with upload_id
\* set.
C19_UploadIdSetForRemoteCalls ==
    \A s \in Sessions :
        /\ (Opened(s) /\ pc[s] # "start_returned") => upload_id[s] # None
        /\ pc[s] \in {"uploading", "completing"} => upload_id[s] # None
        /\ \A i \in DOMAIN calls[s] :
              calls[s][i].op \in {"part", "complete"} => upload_id[s] # None

C19_Witness ==
    \E s \in Sessions :
        upload_id[s] # None /\ CallCount(s, "part") >= 2 /\ Completed(s)

\* C20: completion is called only when the source (the dl bytes of the
\* temporary file) is exhausted, no part is in
\* flight and every submitted chunk has an acknowledged part.
C20_CompletionOnlyWhenAllAcked ==
    \A s \in Sessions :
        (pc[s] = "completing" \/ CallCount(s, "complete") > 0) =>
            /\ pos[s] = dl[s]
            /\ inflight[s] = <<>>
            /\ Len(parts[s]) = CallCount(s, "part")


\* The position, counted from 1, of a chunk among the chunks read from the
\* object: the object's bytes are 1, 2, ..., so the chunk's first byte tells it.
ChunkIndex(data) == Ceil(data[1], CHUNK_SIZE)

\* C21: the k-th chunk read is uploaded with part index k, and no index is
\* used for two different chunks.
C21_PartIndexFollowsReadOrder ==
    \A s \in Sessions : \A i \in DOMAIN calls[s] :
        calls[s][i].op = "part" =>
            /\ calls[s][i].pn = ChunkIndex(calls[s][i].data)
            /\ \A j \in DOMAIN calls[s] :
                  (calls[s][j].op = "part" /\ calls[s][j].pn = calls[s][i].pn)
                      => calls[s][j].data = calls[s][i].data

\* C27: a /fast request for a named file within the limit whose download succeeded
\* ends with the object uploaded and a link sent, unless the store upload failed.
C27_FastPathDeliversLink ==
    \A s \in Sessions :
        (/\ handler[s] = "fast" /\ Terminal(s) /\ pc[s] \notin {"rejected", "raised"}
         /\ original_filename[s] = "file.bin"
         /\ fault[s] # "download"
         /\ \A i \in DOMAIN calls[s] : calls[s][i].ok)
        => (pc[s] = "done" /\ web_link[s])

\* C28: whenever no part upload of an uploader is in flight, part_number is
\* len(parts) + 1 and the part numbers in parts are 1, ..., len(parts).
C28_PartNumberTracksParts ==
    \A s \in Sessions :
        pc[s] \notin {"uploading", "part_acked", "returned"} =>
            /\ part_number[s] = Len(parts[s]) + 1
            /\ \A i \in 1..Len(parts[s]) : parts[s][i].PartNumber = i

C28_Witness ==
    \E s \in Sessions :
        pc[s] = "reading" /\ PartFailed(s) /\ Len(parts[s]) >= 1 /\ pos[s] < dl[s]

\* C24: in a rendered progress snapshot the ETA is the remaining bytes divided
\* by the rate (to the nearest second) when the rate is positive, and is
\* reported as unknown, not as zero seconds, when the rate is 0.
C24_EtaUnknownAtZeroRate ==
    \A s \in Sessions :
        last_hook[s].rendered =>
            LET h == last_hook[s]
                num == (h.total - h.current) * h.diff
                den == h.current * TicksPerSec
            IN  IF SpeedPositive(h.current, h.diff)
                THEN /\ Len(h.eta) = 1
                     /\ 2 * (h.eta[1] * den - num) <= den
                     /\ 2 * (num - h.eta[1] * den) <= den
                ELSE h.eta = <<>>

\* C25: a gateway operation that fails tells its caller the kind of the
\* failure: the value it returns for the kind that occurred differs from the
\* value it would return for the other kind.
C25_GatewayExposesFailureKind ==
    \A s \in Sessions :
        returned[s].raised # "none" =>
            \A k \in ErrorKinds \ {returned[s].raised} :
                GatewayReturn(returned[s].op, FALSE, k) # returned[s].value

\* C26: once the cancel signal is raised for a session, its next chunk read
\* fails (the handler ends in error): no further chunk is dispatched and the
\* handler does not go on to complete the upload.
C26_CancelStopsDispatch ==
    [][\A s \in Sessions :
          (cancelled[s] /\ pc[s] = "reading") => pc'[s] \in {"reading", "error"}]_vars

\* What one transfer owns: its uploader's fields, its position in the handler
\* and what the store holds under its upload id and key.
SessionState(s) ==
    <<upload_id[s], parts[s], part_number[s], uploaded_size[s], pc[s],
      storeParts[s], storeObject[s], web_link[s]>>

OkPartCalls(s) == {j \in DOMAIN calls[s] : calls[s][j].op = "part" /\ calls[s][j].ok}

\* The store acknowledged a part of s that upload_chunk has not appended yet.
PartPending(s) ==
    pc[s] = "part_acked" \/ (pc[s] = "returned" /\ result[s] # NoPart)

AllCallsOk(s) == \A i \in DOMAIN calls[s] : calls[s][i].ok

\* The upload handler ran for an accepted file and nothing failed: no store
\* call, no download, no message to the user (the status message of line 299
\* among them), and no exception was raised in the handler (the division by
\* total_time of line 368 among them).
HappyRun(s) ==
    /\ handler[s] = "instant"
    /\ pc[s] \notin {"rejected", "raised"}
    /\ AllCallsOk(s)
    /\ fault[s] = "none"

C29_WarnCountBelowMax ==
    /\ [](\A u \in Users : warns[u] < DEFAULT_MAX_WARNS)
    /\ [](\A u \in Users : warn_out[u].cur >= DEFAULT_MAX_WARNS => u \in banned)
    /\ [][\A u \in Users : warns'[u] \in {warns[u], warns[u] + 1, 0}]_vars

\* The timestamps of a sequence of handled messages.
Times(ms) == [i \in 1..Len(ms) |-> ms[i].t]

\* C30: after a message of a user handled with anti-flood enabled, the
\* user's timestamp list holds exactly the timestamps of the user's messages
\* handled under anti-flood less than FLOOD_WINDOW before that moment, the
\* current one included, and the flood warning was sent exactly when the list
\* has more than FLOOD_LIMIT entries.
C30_FloodWindowExact ==
    \A u \in Users :
        flood_out[u].checked =>
            LET at == flood_out[u].at
                recent == SelectSeq(msgs[u],
                              LAMBDA m : m.enabled /\ at - m.t < FLOOD_WINDOW)
            IN  /\ flood_cache[u] = Times(recent)
                /\ flood_cache[u] # <<>>
                /\ flood_cache[u][Len(flood_cache[u])] = at
                /\ flood_out[u].warned <=> (Len(flood_cache[u]) > FLOOD_LIMIT)

C30_Witness ==
    \E u \in Users :
        /\ flood_out[u].checked /\ flood_out[u].warned
        /\ \A i \in DOMAIN msgs[u] : msgs[u][i].enabled
        /\ Len(msgs[u]) > Len(flood_cache[u])

\* C31: with link blocking on, every message with an http(s) URL from a user
\* who is not an administrator or owner is deleted, whatever the other
\* settings and the messages before it; with media blocking on, every photo,
\* video, document or sticker from such a user is deleted (get_member and
\* message.delete returning).
C31_BlockedContentDeleted ==
    \A u \in Users :
        (flood_out[u].ran /\ ~flood_out[u].admin /\ flood_out[u].raised = "none") =>
            /\ (flood_out[u].links_on /\ flood_out[u].kind \in {"text_link", "media_link"})
                  => flood_out[u].deleted
            /\ (flood_out[u].media_on /\ flood_out[u].kind \in {"media", "media_link"})
                  => flood_out[u].deleted

\* C32: with captcha on, a user who joins and is not a bot is muted; a muted
\* user gets the send permission back only by that user's own press of that
\* user's captcha button; a press of another user's button changes nobody's
\* permissions and leaves the captcha message in place.
C32_CaptchaGate ==
    /\ []((captcha_out.kind = "join" /\ captcha_out.enabled /\ ~captcha_out.bot)
             => captcha_out.target \in muted)
    /\ [][\A x \in Users :
             (x \in muted /\ x \notin muted') =>
                 /\ captcha_out'.kind = "press"
                 /\ captcha_out'.presser = x
                 /\ captcha_out'.target = x]_vars
    /\ [][(captcha_out'.kind = "press" /\ captcha_out'.presser # captcha_out'.target)
             => (muted' = muted /\ captcha_msgs' = captcha_msgs)]_vars

C32_Witness ==
    /\ captcha_out.kind = "press"
    /\ captcha_out.presser # captcha_out.target
    /\ captcha_out.presser \in muted
    /\ captcha_out.target \in muted
    /\ captcha_msgs[captcha_out.target] > 0

\* What the gated commands can change: chat membership, permissions and the
\* stored data, the rows of chat_settings among them.
GatedState == <<banned, kicked, muted, warns, warn_out, settings, rows>>

\* Membership, permissions, warn counts and the settings in effect.
GatedData == <<banned, kicked, muted, warns, warn_out, settings>>

\* The commands that start with check_admin.
GatedCommands ==
    {"ban", "mute", "kick", "warn", "unwarn", "forget", "lang", "setrules",
     "setwelcomeimage", "toggle"}

\* The step handles a gated command sent in a chat that is not private by a
\* user who is neither administrator nor owner.
RefusedCommand ==
    /\ cmd_out'.turn # cmd_out.turn
    /\ cmd_out'.cmd \in GatedCommands
    /\ ~cmd_out'.private
    /\ cmd_out'.status \notin AdminStatuses

\* C33 as stated: in a chat that is not private, a command among ban, mute,
\* kick, warn, unwarn, forget, lang, setrules, setwelcomeimage and toggle sent
\* by a user who is neither administrator nor owner changes nothing
\* (membership, permissions, stored data) and is answered with the admin-only
\* message.
C33_AdminGateStated ==
    [][RefusedCommand
          => (GatedState' = GatedState /\ cmd_out'.reply = "admin_only")]_vars

\* C33, amended: such a command is answered with the admin-only message and
\* changes no membership, permission, warn count or setting; what it does
\* change is the table chat_settings, where the chat's row of column defaults
\* is created when the chat has none.
C33_AdminGate ==
    [][RefusedCommand
          => /\ GatedData' = GatedData
             /\ rows' = rows \cup {cmd_out'.chat}
             /\ cmd_out'.reply = "admin_only"]_vars

C33_Witness ==
    /\ cmd_out.cmd = "unwarn" /\ ~cmd_out.private /\ cmd_out.status = "member"
    /\ cmd_out.reply = "admin_only"
    /\ HomeChat \in rows
    /\ warns[1] > 0
    /\ kicked # {} /\ muted # {}
    /\ settings[HomeChat].block_links = 1

\* C34: /toggle of captcha, antiflood, links or media flips that one flag of
\* that one chat between 0 and 1 and leaves every other setting and every
\* other chat as they were; toggling the same setting twice gives back the
\* original row; an unknown setting name changes nothing.
C34_ToggleInvolution ==
    /\ [](\A c \in Chats : \A name \in DOMAIN MapKey :
             /\ settings[c][MapKey[name]] \in {0, 1}
             /\ ToggleRow(settings[c], name) # settings[c]
             /\ ToggleRow(ToggleRow(settings[c], name), name) = settings[c])
    /\ [](\A c \in Chats : \A name \in ToggleNames \ DOMAIN MapKey :
             ToggleRow(settings[c], name) = settings[c])
    /\ [][/\ settings' # settings =>
                /\ cmd_out'.arg \in DOMAIN MapKey
                /\ cmd_out'.reply = "done"
                /\ settings' = [settings EXCEPT
                                   ![cmd_out'.chat][MapKey[cmd_out'.arg]] = 1 - @]
          /\ cmd_out'.arg \notin DOMAIN MapKey => settings' = settings
          /\ cmd_out'.reply = "done" => settings' # settings]_vars

C34_Witness ==
    /\ cmd_out.reply = "unknown"
    /\ settings[1].captcha_enabled = 1 /\ settings[1].block_links = 0
    /\ settings[2].block_media = 1 /\ settings[2].captcha_enabled = 0

============================================================================
